---- MODULE Spec2Model ----
(***************************************************************************)
(* A model of the smart-date engine of publish (src/publish/_smartdates.py),*)
(* of the discovery of publications (src/publish/_discover.py) and of the  *)
(* build (src/publish/_build.py).                                          *)
(*                                                                         *)
(* Representation.                                                         *)
(*   - A calendar day is an integer: the number of days since Monday       *)
(*     2020-12-07, so that date.weekday() is day % 7 (MONDAY = 0).         *)
(*     2020-12-15 is day 8, 2020-12-10 is day 3.                           *)
(*   - A value is a record [type, day, sec]: type "date" (sec = 0),        *)
(*     type "datetime" (sec = seconds since midnight), or type "str" for   *)
(*     a non-date object held by date_context.known.                       *)
(*   - A timedelta is its total number of seconds.                         *)
(*   - A smart date string is the sequence of its tokens, the pieces       *)
(*     between single spaces: "7 days before due" is                       *)
(*     <<"7", "days", "before", "due">>.  The regular expressions of the   *)
(*     parser are matched token by token.                                  *)
(*   - A dict is a function together with the sequence of its keys in      *)
(*     insertion order.                                                    *)
(***************************************************************************)
EXTENDS Integers, Sequences, FiniteSets, TLC

VARIABLES
    smart_dates,        \* the batch: key -> raw value (token sequence or value)
    key_order,          \* insertion order of the keys of smart_dates
    known,              \* date_context.known
    start_of_week_one,  \* date_context.start_of_week_one (value or None)
    pc,                 \* position in resolve_smart_dates
    nodes,              \* key -> Node, after parsing
    order,              \* result of _topological_sort
    universe,           \* the working mapping of resolve_smart_dates
    evaluated,          \* keys whose node has been resolved, in order
    resolved,           \* the returned mapping
    raised,             \* the exception that left resolve_smart_dates
    \* discover
    files,              \* the publication files, as found and then by path
    schema,             \* the schema of the collection "homeworks"
    publications,       \* the publications of the collections, as inserted
    dpc,                \* position in _make_publications / read_publication_file
    cur,                \* the locals of the read_publication_file under way
    derror,             \* the exception that left discover
    \* build
    parent,             \* the collection handed to build
    ignore_release_time,
    run_returncode,     \* run: recipe -> return code of the process
    file_exists,        \* exists: file -> whether it is there after the recipe
    clock,              \* what now() returns, in seconds after 2020-12-15 00:00
    bpc,                \* position in build
    visit,              \* the publication and the artifact build has reached
    run_calls,          \* the recipes handed to run, in order
    callbacks,          \* the callbacks made, in order, and when
    new_children,       \* per publication, the results of its artifacts so far
    built,              \* the publications of the returned collection
    berror,             \* the exception that left build
    \* publish
    copied,             \* the copies made into the output directory, in order
    published_json,     \* the text written to published.json, if any
    \* serialize / deserialize
    original,           \* the node handed to serialize
    artifact_is_instance, \* whether isinstance(<an artifact>, Artifact) holds
    serialized,         \* the JSON document serialize returned
    deserialized,       \* what deserialize made of it
    spc,                \* position in the round trip
    serror,             \* the exception that left serialize
    \* filter_nodes
    tree,               \* the parent handed to filter_nodes
    predicate,
    remove_empty_nodes,
    filtered,           \* the tree filter_nodes returned
    fpc                 \* position in the call of filter_nodes

discoverVars == <<files, schema, publications, dpc, cur, derror>>

buildVars == <<parent, ignore_release_time, run_returncode, file_exists, clock,
               bpc, visit, run_calls, callbacks, new_children, built, berror>>

smartDateVars ==
    <<smart_dates, key_order, known, start_of_week_one, pc, nodes, order,
      universe, evaluated, resolved, raised>>

publishVars == <<copied, published_json>>

serializeVars == <<original, artifact_is_instance, serialized, deserialized, spc, serror>>

filterVars == <<tree, predicate, remove_empty_nodes, filtered, fpc>>

vars == <<smartDateVars, discoverVars, buildVars, publishVars, serializeVars,
          filterVars>>

(***************************************************************************)
(* Bounds of the model                                                     *)
(***************************************************************************)
\* largest number of entries of a batch
MaxBatch == 3
\* days examined by a weekday scan before the run is cut off; the program
\* itself stops only when the date arithmetic overflows
MaxScan == 8

\* largest number of publication files under the input directory
MaxPublications == 3
\* largest number of publications of the collection handed to build
MaxBuilt == 2
\* latest reading of the clock, in seconds after 2020-12-15 00:00:00
MaxClock == 2

SecondsPerHour == 3600
SecondsPerDay == 86400
DaysPerWeek == 7

(***************************************************************************)
(* Values                                                                  *)
(***************************************************************************)
None == [type |-> "None", day |-> 0, sec |-> 0]

Date(d) == [type |-> "date", day |-> d, sec |-> 0]

Datetime(d, s) == [type |-> "datetime", day |-> d, sec |-> s]

\* objects that are neither date nor datetime: a str or an int held by
\* date_context.known
Str == [type |-> "str", day |-> 0, sec |-> 0]

Int_ == [type |-> "int", day |-> 0, sec |-> 0]

Time(s) == [type |-> "time", day |-> 0, sec |-> s]

IsDateOrDatetime(v) == v.type \in {"date", "datetime"}

\* date.weekday() / datetime.weekday()
weekday(v) == v.day % DaysPerWeek

TypeError == [exc |-> "TypeError", msg |-> "unsupported operand"]

OverflowError == [exc |-> "OverflowError", msg |-> "date value out of range"]

ValidationError(m) == [exc |-> "ValidationError", msg |-> m]

NoError == [exc |-> "none", msg |-> ""]

Returned(v) == [tag |-> "value", value |-> v, error |-> NoError]

Raised(e) == [tag |-> "raise", value |-> None, error |-> e]

\* value + timedelta: a date moves by timedelta.days (the floor of the
\* delta in days), a datetime by the whole delta; any other object raises
\* TypeError
AddDelta(v, delta) ==
    IF v.type = "date"
    THEN Returned(Date(v.day + (delta \div SecondsPerDay)))
    ELSE IF v.type = "datetime"
    THEN LET total == v.sec + delta
         IN Returned(Datetime(v.day + (total \div SecondsPerDay),
                              total % SecondsPerDay))
    ELSE Raised(TypeError)

(***************************************************************************)
(* Tokens.  The tables below list, for every token of the vocabulary, what *)
(* str.lower(), str.upper() and int() make of it and which character       *)
(* classes of the parser's regular expressions it matches.                 *)
(***************************************************************************)
\* tokens matching [\w]+ that are made of letters: <<token, lower, upper>>
CaseTable ==
    { <<"foo", "foo", "FOO">>, <<"bar", "bar", "BAR">>, <<"baz", "baz", "BAZ">>,
      <<"due", "due", "DUE">>, <<"Due", "due", "DUE">>,
      <<"title", "title", "TITLE">>, <<"badfield", "badfield", "BADFIELD">>,
      <<"released", "released", "RELEASED">>,
      <<"day", "day", "DAY">>, <<"days", "days", "DAYS">>,
      <<"DAYS", "days", "DAYS">>, <<"DAY", "day", "DAY">>,
      <<"hour", "hour", "HOUR">>, <<"hours", "hours", "HOURS">>,
      <<"HOURS", "hours", "HOURS">>, <<"HOUR", "hour", "HOUR">>,
      <<"before", "before", "BEFORE">>, <<"after", "after", "AFTER">>,
      <<"BeFoRe", "before", "BEFORE">>, <<"AFTER", "after", "AFTER">>,
      <<"first", "first", "FIRST">>, <<"First", "first", "FIRST">>,
      <<"monday", "monday", "MONDAY">>, <<"Monday", "monday", "MONDAY">>,
      <<"tuesday", "tuesday", "TUESDAY">>, <<"TUESDAY", "tuesday", "TUESDAY">>,
      <<"wednesday", "wednesday", "WEDNESDAY">>,
      <<"thursday", "thursday", "THURSDAY">>,
      <<"friday", "friday", "FRIDAY">>,
      <<"saturday", "saturday", "SATURDAY">>,
      <<"sunday", "sunday", "SUNDAY">>,
      <<"funday", "funday", "FUNDAY">>,
      <<"or", "or", "OR">>, <<"OR", "or", "OR">>,
      <<"of", "of", "OF">>, <<"OF", "of", "OF">>,
      <<"week", "week", "WEEK">>, <<"Week", "week", "WEEK">>,
      <<"at", "at", "AT">>, <<"AT", "at", "AT">> }

\* tokens matching \d+ and their int()
IntOf ==
    "0" :> 0 @@ "1" :> 1 @@ "01" :> 1 @@ "2" :> 2 @@ "02" :> 2 @@ "3" :> 3 @@
    "7" :> 7 @@ "24" :> 24 @@ "25" :> 25

\* tokens matching \d{2}:\d{2}:\d{2} and their three int()s
TimeParts ==
    "00:00:00" :> <<0, 0, 0>> @@ "13:13:13" :> <<13, 13, 13>> @@
    "23:00:00" :> <<23, 0, 0>> @@ "55:00:00" :> <<55, 0, 0>>

\* tokens with a dot: they match [\w\.]+ but not [\w]+
DottedTokens ==
    {"previous.due", "metadata.due", "metadata.title", "metadata.released",
     "previous.metadata.due", "previous.metadata.title",
     "previous.metadata.released"}

\* tokens ending in a comma, and the token without it
CommaTokens == "monday," :> "monday" @@ "tuesday," :> "tuesday" @@
               "wednesday," :> "wednesday"

LetterTokens == {r[1] : r \in CaseTable}

IsDigits(t) == t \in DOMAIN IntOf

\* [\w]+
IsWord(t) == t \in LetterTokens \/ IsDigits(t)

\* [\w\.]+
IsFieldName(t) == IsWord(t) \/ t \in DottedTokens

\* str.lower() of one token
Lower(t) ==
    IF t \in LetterTokens THEN (CHOOSE r \in CaseTable : r[1] = t)[2] ELSE t

\* str.upper() of one token
Upper(t) ==
    IF t \in LetterTokens THEN (CHOOSE r \in CaseTable : r[1] = t)[3] ELSE t

\* str.lower() of a string
LowerAll(s) == [i \in 1..Len(s) |-> Lower(s[i])]

\* class _DaysOfTheWeek(enum.IntEnum)
_DaysOfTheWeek ==
    "MONDAY" :> 0 @@ "TUESDAY" :> 1 @@ "WEDNESDAY" :> 2 @@ "THURSDAY" :> 3 @@
    "FRIDAY" :> 4 @@ "SATURDAY" :> 5 @@ "SUNDAY" :> 6

(***************************************************************************)
(* Raw batch values and nodes                                              *)
(***************************************************************************)
\* a smart date string
S(tokens) == [isstr |-> TRUE, s |-> tokens, v |-> None]

\* a raw value that is not a string
Obj(v) == [isstr |-> FALSE, s |-> <<>>, v |-> v]

EmptyNode ==
    [kind |-> "none", date |-> None, relative_to |-> "", time |-> None,
     delta |-> 0, is_hours_delta |-> FALSE, day_of_the_week |-> {},
     before_or_after |-> "", week_number |-> 0]

Matched(n) == [tag |-> "node", node |-> n, error |-> NoError]

_MatchError == [tag |-> "nomatch", node |-> EmptyNode, error |-> NoError]

ParseRaised(e) == [tag |-> "raise", node |-> EmptyNode, error |-> e]

\* hasattr(node, "relative_to")
HasRelativeTo(n) == n.kind \in {"direct", "delta", "first"}

(***************************************************************************)
(* The parser                                                              *)
(***************************************************************************)
\* datetime.time(h, m, s) raises ValueError outside these ranges
ValidTime(p) == p[1] < 24 /\ p[2] < 60 /\ p[3] < 60

SecondsOf(p) == p[1] * SecondsPerHour + p[2] * 60 + p[3]

\* the pattern " at (\d{2}):(\d{2}):(\d{2})$", case-insensitive
HasTimeSuffix(s) ==
    /\ Len(s) >= 3
    /\ Lower(s[Len(s) - 1]) = "at"
    /\ s[Len(s)] \in DOMAIN TimeParts

_parse_and_remove_time(s) ==
    IF HasTimeSuffix(s)
    THEN LET time_raw == TimeParts[s[Len(s)]]
         IN IF ValidTime(time_raw)
            THEN [tag |-> "ok", s |-> SubSeq(s, 1, Len(s) - 2),
                  time |-> Time(SecondsOf(time_raw)), error |-> NoError]
            ELSE [tag |-> "raise", s |-> s, time |-> None,
                  error |-> ValidationError("Invalid time")]
    ELSE [tag |-> "ok", s |-> s, time |-> None, error |-> NoError]

\* a combination that leaves the time of a datetime alone
CombineKeepsDatetimeTime(date, time) ==
    IF time # None
    THEN IF date.type = "date" THEN Returned(Datetime(date.day, time.sec))
         ELSE IF date.type = "datetime" THEN Returned(date)
         ELSE Raised(TypeError)
    ELSE Returned(date)

\* _combine_date_and_time: datetime.datetime.combine(date, time) keeps the
\* date part of a date or a datetime and raises TypeError for anything else
_combine_date_and_time(date, time) ==
    IF time # None
    THEN IF IsDateOrDatetime(date)
         THEN Returned(Datetime(date.day, time.sec))
         ELSE Raised(TypeError)
    ELSE Returned(date)

_parse_day_of_the_week(s) ==
    IF Upper(s) \in DOMAIN _DaysOfTheWeek
    THEN Returned(_DaysOfTheWeek[Upper(s)])
    ELSE Raised(ValidationError("Invalid day of week"))

\* a literal node that keeps the day only
DateNodeParseDropsTime(raw) ==
    IF raw.isstr \/ ~IsDateOrDatetime(raw.v)
    THEN _MatchError
    ELSE Matched([EmptyNode EXCEPT !.kind = "date", !.date = Date(raw.v.day)])

_DateNode_parse(raw) ==
    IF raw.isstr \/ ~IsDateOrDatetime(raw.v)
    THEN _MatchError
    ELSE Matched([EmptyNode EXCEPT !.kind = "date", !.date = raw.v])

\* re.search on an object that is not a str raises TypeError
_DirectReferenceNode_parse(raw) ==
    IF ~raw.isstr THEN ParseRaised(TypeError)
    ELSE LET r == _parse_and_remove_time(raw.s)
         IN IF r.tag = "raise" THEN ParseRaised(r.error)
            ELSE IF Len(r.s) = 1 /\ IsFieldName(r.s[1])
            THEN Matched([EmptyNode EXCEPT !.kind = "direct",
                                           !.relative_to = r.s[1],
                                           !.time = r.time])
            ELSE _MatchError

\* the whole unit word, plural "s" included
UnitWord(t) == Lower(t)

\* the text matched by the group (hour|day) of the delta pattern, lowered:
\* the plural "s" is matched outside the group
UnitGroup(t) == IF Lower(t) \in {"hour", "hours"} THEN "hour" ELSE "day"

\* the pattern ^(\d+) (hour|day)[s]{0,1} (after|before) ([\w\.]+)$
MatchesDelta(s) ==
    /\ Len(s) = 4
    /\ IsDigits(s[1])
    /\ Lower(s[2]) \in {"hour", "hours", "day", "days"}
    /\ Lower(s[3]) \in {"after", "before"}
    /\ IsFieldName(s[4])

_DeltaReferenceNode_parse(raw) ==
    LET r == _parse_and_remove_time(raw.s)
    IN IF r.tag = "raise" THEN ParseRaised(r.error)
       ELSE IF ~MatchesDelta(r.s) THEN _MatchError
       ELSE LET number == IntOf[r.s[1]]
                factor == IF Lower(r.s[3]) = "before" THEN -1 ELSE 1
                is_hours_delta == UnitGroup(r.s[2]) = "hour"
                delta == IF is_hours_delta
                         THEN factor * number * SecondsPerHour
                         ELSE factor * number * SecondsPerDay
            IN Matched([EmptyNode EXCEPT !.kind = "delta",
                                         !.delta = delta,
                                         !.relative_to = r.s[4],
                                         !.time = r.time,
                                         !.is_hours_delta = is_hours_delta])

\* s.replace(",", " "): a token "monday," becomes "monday" and an empty token
RECURSIVE ReplaceCommas(_)
ReplaceCommas(s) ==
    IF s = <<>> THEN <<>>
    ELSE (IF Head(s) \in DOMAIN CommaTokens
          THEN <<CommaTokens[Head(s)], "">>
          ELSE <<Head(s)>>) \o ReplaceCommas(Tail(s))

\* s.replace(" or ", " "), from token i on: an "or" between two spaces goes,
\* unless the space before it was used up by the match just before
RECURSIVE ReplaceOr(_, _, _)
ReplaceOr(s, i, space_used) ==
    IF i > Len(s) THEN <<>>
    ELSE IF s[i] = "or" /\ 1 < i /\ i < Len(s) /\ ~space_used
    THEN ReplaceOr(s, i + 1, TRUE)
    ELSE <<s[i]>> \o ReplaceOr(s, i + 1, FALSE)

\* str.split(): the tokens that are not empty
RECURSIVE Split(_)
Split(s) ==
    IF s = <<>> THEN <<>>
    ELSE (IF Head(s) = "" THEN <<>> ELSE <<Head(s)>>) \o Split(Tail(s))

\* the pattern ^first ([\w ]+) (after|before) ([\w\.]+)$, case-insensitive
MatchesFirst(s) ==
    /\ Len(s) >= 4
    /\ Lower(s[1]) = "first"
    /\ \A i \in 2..(Len(s) - 2) : IsWord(s[i]) \/ s[i] = ""
    /\ ~(Len(s) = 4 /\ s[2] = "")
    /\ Lower(s[Len(s) - 1]) \in {"after", "before"}
    /\ IsFieldName(s[Len(s)])

\* the set comprehension over day_of_the_week_raw.split(): the first name
\* that is no day of the week raises
RECURSIVE ParseDays(_)
ParseDays(names) ==
    IF names = <<>> THEN Returned({})
    ELSE LET d == _parse_day_of_the_week(Head(names))
         IN IF d.tag = "raise" THEN d
            ELSE LET rest == ParseDays(Tail(names))
                 IN IF rest.tag = "raise" THEN rest
                    ELSE Returned({d.value} \cup rest.value)

_FirstAvailableNode_parse(raw) ==
    LET r == _parse_and_remove_time(raw.s)
    IN IF r.tag = "raise" THEN ParseRaised(r.error)
       ELSE LET s == ReplaceOr(ReplaceCommas(r.s), 1, FALSE)
            IN IF ~MatchesFirst(s) THEN _MatchError
               ELSE LET days == ParseDays(Split(SubSeq(s, 2, Len(s) - 2)))
                    IN IF days.tag = "raise" THEN ParseRaised(days.error)
                       ELSE Matched([EmptyNode EXCEPT
                                !.kind = "first",
                                !.day_of_the_week = days.value,
                                !.before_or_after = s[Len(s) - 1],
                                !.relative_to = s[Len(s)],
                                !.time = r.time])

\* the pattern ([\w]+) of week (\d+)$ applied to the lowered string
MatchesWeek(s) ==
    /\ Len(s) = 4
    /\ IsWord(s[1])
    /\ s[2] = "of"
    /\ s[3] = "week"
    /\ IsDigits(s[4])

_DayOfGivenWeekNode_parse(raw) ==
    LET r == _parse_and_remove_time(LowerAll(raw.s))
    IN IF r.tag = "raise" THEN ParseRaised(r.error)
       ELSE IF ~MatchesWeek(r.s) THEN _MatchError
       ELSE LET d == _parse_day_of_the_week(r.s[1])
            IN IF d.tag = "raise" THEN ParseRaised(d.error)
               ELSE Matched([EmptyNode EXCEPT !.kind = "week",
                                              !.day_of_the_week = {d.value},
                                              !.week_number = IntOf[r.s[4]],
                                              !.time = r.time])

\* _parse: the node types are tried in order; the first that does not raise
\* _MatchError decides
_parse(raw) ==
    LET a == _DateNode_parse(raw)
        b == _DirectReferenceNode_parse(raw)
        c == _DeltaReferenceNode_parse(raw)
        d == _FirstAvailableNode_parse(raw)
        e == _DayOfGivenWeekNode_parse(raw)
    IN IF a.tag # "nomatch" THEN a
       ELSE IF b.tag # "nomatch" THEN b
       ELSE IF c.tag # "nomatch" THEN c
       ELSE IF d.tag # "nomatch" THEN d
       ELSE IF e.tag # "nomatch" THEN e
       ELSE ParseRaised(ValidationError("The smart date string is invalid"))

(***************************************************************************)
(* _topological_sort                                                       *)
(***************************************************************************)
\* children[k]: the keys whose node refers to k, in the iteration order of
\* nodes
Children(keys, nds) ==
    [k \in DOMAIN nds |->
        SelectSeq(keys, LAMBDA x : HasRelativeTo(nds[x])
                                   /\ nds[x].relative_to = k)]

\* start and finish are the two dicts of the sort, clock the counter that
\* _dfs takes and returns, cycle whether ValidationError was raised
DfsInit == [start |-> <<>>, finish |-> <<>>, clock |-> 0, cycle |-> FALSE]

RECURSIVE _dfs(_, _, _)
RECURSIVE DfsChildren(_, _, _, _)
RECURSIVE DfsChildrenStartedOnly(_, _, _, _)
_dfs(children, source, st) ==
    LET entered == [st EXCEPT !.clock = st.clock + 1,
                              !.start = (source :> (st.clock + 1)) @@ st.start]
        after == DfsChildren(children, source, 1, entered)
    IN IF after.cycle THEN after
       ELSE [after EXCEPT !.clock = after.clock + 1,
                          !.finish = (source :> (after.clock + 1)) @@ after.finish]

\* the loop without "and child not in finish": a started child is a cycle
DfsChildrenStartedOnly(children, source, j, st) ==
    IF st.cycle \/ j > Len(children[source]) THEN st
    ELSE LET child == children[source][j]
         IN IF child \in DOMAIN st.start
            THEN [st EXCEPT !.cycle = TRUE]
            ELSE DfsChildrenStartedOnly(children, source, j + 1,
                                        _dfs(children, child, st))

\* the loop "for child in children[source]" from its j-th iteration on
DfsChildren(children, source, j, st) ==
    IF st.cycle \/ j > Len(children[source]) THEN st
    ELSE LET child == children[source][j]
         IN IF child \in DOMAIN st.start /\ child \notin DOMAIN st.finish
            THEN [st EXCEPT !.cycle = TRUE]
            ELSE IF child \notin DOMAIN st.start
            THEN DfsChildren(children, source, j + 1, _dfs(children, child, st))
            ELSE DfsChildren(children, source, j + 1, st)

\* the loop "for key in nodes" from its i-th iteration on
RECURSIVE DfsRoots(_, _, _, _)
DfsRoots(children, keys, i, st) ==
    IF st.cycle \/ i > Len(keys) THEN st
    ELSE IF keys[i] \notin DOMAIN st.finish
    THEN DfsRoots(children, keys, i + 1, _dfs(children, keys[i], st))
    ELSE DfsRoots(children, keys, i + 1, st)

\* sorted(finish.keys(), key=lambda x: finish[x], reverse=True)
ReverseSorted(finish) ==
    [i \in 1..Cardinality(DOMAIN finish) |->
        CHOOSE k \in DOMAIN finish :
            Cardinality({x \in DOMAIN finish : finish[x] > finish[k]}) = i - 1]

\* sorted(...) without reverse=True
SortAscendingFinish(keys, nds) ==
    LET st == DfsRoots(Children(keys, nds), keys, 1, DfsInit)
        n == Cardinality(DOMAIN st.finish)
    IN IF st.cycle
       THEN [tag |-> "raise", order |-> <<>>,
             error |-> ValidationError("Cycle detected in smart date references.")]
       ELSE [tag |-> "ok",
             order |-> [i \in 1..n |-> ReverseSorted(st.finish)[n + 1 - i]],
             error |-> NoError]

\* a sort that returns the keys in the iteration order of nodes
SortInIterationOrder(keys, nds) ==
    LET st == DfsRoots(Children(keys, nds), keys, 1, DfsInit)
    IN IF st.cycle
       THEN [tag |-> "raise", order |-> <<>>,
             error |-> ValidationError("Cycle detected in smart date references.")]
       ELSE [tag |-> "ok", order |-> keys, error |-> NoError]

_topological_sort(keys, nds) ==
    LET st == DfsRoots(Children(keys, nds), keys, 1, DfsInit)
    IN IF st.cycle
       THEN [tag |-> "raise", order |-> <<>>,
             error |-> ValidationError("Cycle detected in smart date references.")]
       ELSE [tag |-> "ok",
             order |-> SelectSeq(ReverseSorted(st.finish),
                                 LAMBDA x : x \in DOMAIN nds),
             error |-> NoError]

(***************************************************************************)
(* Node.resolve                                                            *)
(***************************************************************************)
UnknownField == ValidationError("Reference of an unknown field")

_DateNode_resolve(node, univ) == Returned(node.date)

_DirectReferenceNode_resolve(node, univ) ==
    IF node.relative_to \notin DOMAIN univ THEN Raised(UnknownField)
    ELSE _combine_date_and_time(univ[node.relative_to], node.time)

\* the delta resolution without the check of the type of the referent
DeltaResolveAnyType(node, univ) ==
    IF node.relative_to \notin DOMAIN univ THEN Raised(UnknownField)
    ELSE LET date == AddDelta(univ[node.relative_to], node.delta)
         IN IF date.tag = "raise" THEN date
            ELSE IF node.time # None /\ node.is_hours_delta
            THEN Raised(ValidationError(
                     "Cannot use hours delta and specify an exact time."))
            ELSE _combine_date_and_time(date.value, node.time)

\* the delta resolution without the check of an exact time
DeltaResolveAnyTime(node, univ) ==
    IF node.relative_to \notin DOMAIN univ THEN Raised(UnknownField)
    ELSE LET date == AddDelta(univ[node.relative_to], node.delta)
         IN IF date.tag = "raise" THEN date
            ELSE IF date.value.type = "date" /\ node.is_hours_delta
            THEN Raised(ValidationError(
                     "Cannot use hours delta in reference to a date"))
            ELSE _combine_date_and_time(date.value, node.time)

_DeltaReferenceNode_resolve(node, univ) ==
    IF node.relative_to \notin DOMAIN univ THEN Raised(UnknownField)
    ELSE LET date == AddDelta(univ[node.relative_to], node.delta)
         IN IF date.tag = "raise" THEN date
            ELSE IF date.value.type = "date" /\ node.is_hours_delta
            THEN Raised(ValidationError(
                     "Cannot use hours delta in reference to a date"))
            ELSE IF node.time # None /\ node.is_hours_delta
            THEN Raised(ValidationError(
                     "Cannot use hours delta and specify an exact time."))
            ELSE _combine_date_and_time(date.value, node.time)

\* the loop "while cursor_date.weekday() not in days: cursor_date += delta";
\* examined counts the days looked at so far.  The program leaves a loop
\* that finds no day only when the date overflows.
RECURSIVE Scan(_, _, _, _)
Scan(cursor_date, delta, days, examined) ==
    IF weekday(cursor_date) \in days THEN Returned(cursor_date)
    ELSE IF examined >= MaxScan THEN Raised(OverflowError)
    ELSE Scan(AddDelta(cursor_date, delta).value, delta, days, examined + 1)

\* a scan that starts on the day of the referent itself
FirstAvailableFromReferent(node, univ) ==
    LET sign == IF Lower(node.before_or_after) = "after" THEN 1 ELSE -1
        delta == sign * SecondsPerDay
    IN IF node.relative_to \notin DOMAIN univ THEN Raised(UnknownField)
       ELSE LET first == AddDelta(univ[node.relative_to], 0)
            IN IF first.tag = "raise" THEN first
               ELSE LET found == Scan(first.value, delta, node.day_of_the_week, 1)
                    IN IF found.tag = "raise" THEN found
                       ELSE _combine_date_and_time(found.value, node.time)

_FirstAvailableNode_resolve(node, univ) ==
    LET sign == IF Lower(node.before_or_after) = "after" THEN 1 ELSE -1
        delta == sign * SecondsPerDay
    IN IF node.relative_to \notin DOMAIN univ THEN Raised(UnknownField)
       ELSE LET first == AddDelta(univ[node.relative_to], delta)
            IN IF first.tag = "raise" THEN first
               ELSE LET found == Scan(first.value, delta, node.day_of_the_week, 1)
                    IN IF found.tag = "raise" THEN found
                       ELSE _combine_date_and_time(found.value, node.time)

\* a week start that counts the weeks from zero
WeekResolveFromZero(node, start) ==
    IF start = None
    THEN Raised(ValidationError("Start date of week one was not provided."))
    ELSE LET week_start ==
                 AddDelta(start, node.week_number * DaysPerWeek * SecondsPerDay)
             found == Scan(week_start.value, SecondsPerDay, node.day_of_the_week, 1)
         IN IF found.tag = "raise" THEN found
            ELSE _combine_date_and_time(found.value, node.time)

\* a week rule that falls back on an anchor of its own
WeekResolveDefaultAnchor(node, start) ==
    LET anchor == IF start = None THEN Date(0) ELSE start
        week_start ==
            AddDelta(anchor, (node.week_number - 1) * DaysPerWeek * SecondsPerDay)
        found == Scan(week_start.value, SecondsPerDay, node.day_of_the_week, 1)
    IN IF found.tag = "raise" THEN found
       ELSE _combine_date_and_time(found.value, node.time)

_DayOfGivenWeekNode_resolve(node, start) ==
    IF start = None
    THEN Raised(ValidationError("Start date of week one was not provided."))
    ELSE LET week_start ==
                 AddDelta(start, (node.week_number - 1) * DaysPerWeek * SecondsPerDay)
             found == Scan(week_start.value, SecondsPerDay, node.day_of_the_week, 1)
         IN IF found.tag = "raise" THEN found
            ELSE _combine_date_and_time(found.value, node.time)

\* node.resolve(universe, date_context)
Resolve(node, univ, start) ==
    CASE node.kind = "date" -> _DateNode_resolve(node, univ)
      [] node.kind = "direct" -> _DirectReferenceNode_resolve(node, univ)
      [] node.kind = "delta" -> _DeltaReferenceNode_resolve(node, univ)
      [] node.kind = "first" -> _FirstAvailableNode_resolve(node, univ)
      [] node.kind = "week" -> _DayOfGivenWeekNode_resolve(node, start)

(***************************************************************************)
(* resolve_smart_dates as a function of its arguments                      *)
(***************************************************************************)
\* the dict comprehension {k: _parse(v) for k, v in smart_dates.items()}:
\* the first entry, in iteration order, whose parse raises ends it
ParseBatch(keys, sd) ==
    LET bad == {i \in 1..Len(keys) : _parse(sd[keys[i]]).tag = "raise"}
    IN IF bad = {}
       THEN [tag |-> "ok", nodes |-> [k \in DOMAIN sd |-> _parse(sd[k]).node],
             error |-> NoError]
       ELSE [tag |-> "raise", nodes |-> <<>>,
             error |-> _parse(sd[keys[CHOOSE i \in bad :
                                        \A j \in bad : i <= j]]).error]

\* the loop "for key in order" from its i-th iteration on
RECURSIVE ResolveFrom(_, _, _, _, _)
ResolveFrom(ord, i, nds, univ, start) ==
    IF i > Len(ord) THEN [tag |-> "ok", universe |-> univ, error |-> NoError]
    ELSE LET r == Resolve(nds[ord[i]], univ, start)
         IN IF r.tag = "raise"
            THEN [tag |-> "raise", universe |-> univ, error |-> r.error]
            ELSE ResolveFrom(ord, i + 1, nds, (ord[i] :> r.value) @@ univ, start)

Outcome(res, err) == [resolved |-> res, raised |-> err]

\* a failed loop hands back the entries resolved before the failure
AfterResolveKeepsEvaluated(done, sd) ==
    IF done.tag = "raise"
    THEN Outcome([k \in DOMAIN sd \cap DOMAIN done.universe |-> done.universe[k]],
                 done.error)
    ELSE Outcome([k \in DOMAIN sd |-> done.universe[k]], NoError)

\* return {k: universe[k] for k in smart_dates}, when the loop has ended
AfterResolve(done, sd) ==
    IF done.tag = "raise" THEN Outcome(<<>>, done.error)
    ELSE Outcome([k \in DOMAIN sd |-> done.universe[k]], NoError)

\* the loop over the order, when the sort has ended
AfterSort(sorted, nds, sd, kn, start) ==
    IF sorted.tag = "raise" THEN Outcome(<<>>, sorted.error)
    ELSE AfterResolve(ResolveFrom(sorted.order, 1, nds, kn, start), sd)

\* the sort, when the batch has been parsed
AfterParse(parsed, keys, sd, kn, start) ==
    IF parsed.tag = "raise" THEN Outcome(<<>>, parsed.error)
    ELSE AfterSort(_topological_sort(keys, parsed.nodes), parsed.nodes, sd, kn,
                   start)

resolve_smart_dates(keys, sd, kn, start) ==
    AfterParse(ParseBatch(keys, sd), keys, sd, kn, start)

(***************************************************************************)
(* The inputs                                                              *)
(***************************************************************************)
Names == <<"foo", "bar", "baz", "due">>

Min(a, b) == IF a < b THEN a ELSE b

\* the field names a batch may define
BatchNames == {Names[i] : i \in 1..Min(MaxBatch, Len(Names))}

\* the sequences without repetition over a set of names
Orders(names) ==
    UNION {{o \in [1..n -> names] : \A i, j \in 1..n : i # j => o[i] # o[j]}
           : n \in 1..Cardinality(names)}

\* rules that refer to another field, of the three kinds with a referent,
\* rules without a referent, and a string that is no smart date
GraphPool ==
    {S(<<x>>) : x \in BatchNames \cup {"due"}}
    \cup {S(<<"1", "hour", "after", "foo">>),
          S(<<"first", "monday", "after", "bar">>), Obj(Datetime(8, 0)),
          S(<<"due", "week">>)}

GraphKnown ==
    {"due" :> Datetime(8, 0), "due" :> Datetime(8, 0) @@ "foo" :> Datetime(1, 3600)}

\* the " at HH:MM:SS" endings of the rules of the evaluation pool
TimeSuffixes == {<<>>, <<"at", "13:13:13">>, <<"AT", "00:00:00">>}

DirectPool ==
    {S(<<x>> \o t) : x \in {"due", "title", "badfield", "Due"},
                     t \in TimeSuffixes \cup {<<"at", "55:00:00">>}}

DeltaPool ==
    {S(<<n, u, d, x>> \o t) :
        n \in {"0", "3", "24"}, u \in {"day", "days", "hour", "HOURS"},
        d \in {"before", "after"}, x \in {"due", "title", "badfield"},
        t \in {<<>>, <<"at", "13:13:13">>}}

WeekdayLists ==
    { <<"monday">>, <<"tuesday">>, <<"sunday">>, <<"monday", "or", "thursday">>,
      <<"monday,", "wednesday,", "or", "friday">>, <<"funday">>, <<"", "">> }

FirstPool ==
    {S(<<"first">> \o l \o <<d, x>> \o t) :
        l \in WeekdayLists, d \in {"before", "AFTER"},
        x \in {"due", "title", "badfield"}, t \in {<<>>, <<"at", "13:13:13">>}}

WeekPool ==
    {S(<<w, "of", "week", n>> \o t) :
        w \in {"monday", "TUESDAY", "thursday", "sunday", "funday"},
        n \in {"0", "1", "2", "02"}, t \in {<<>>, <<"at", "13:13:13">>}}

OtherPool ==
    {Obj(Date(8)), Obj(Datetime(8, 3540)), Obj(Int_), S(<<"due", "week">>)}

\* the rules of the entry under evaluation
EvalPool == DirectPool \cup DeltaPool \cup FirstPool \cup WeekPool \cup OtherPool

\* the rules of a second entry, which refers to the first
DependentPool ==
    { S(<<"foo">>), S(<<"foo", "at", "13:13:13">>),
      S(<<"1", "day", "after", "foo">>), S(<<"3", "hours", "before", "foo">>),
      S(<<"first", "monday", "before", "foo">>) }

\* date_context.known: "title" is a metadata field that is no date, "due" a
\* date on each day of a week or a datetime, or absent
EvalKnown ==
    {"title" :> Str}
    \cup {"title" :> Str @@ "due" :> Date(d) : d \in 8..14}
    \cup {"title" :> Str @@ "due" :> v :
            v \in {Datetime(8, 3540), Datetime(13, 86340)}}

EvalStart == {None, Date(3), Datetime(3, 3600)}

\* the anchors of the batches of two rules
ChainStart == {None, Date(3)}

\* the contexts of the batches of two rules
ChainKnown ==
    {"title" :> Str, "title" :> Str @@ "due" :> Date(8),
     "title" :> Str @@ "due" :> Datetime(8, 3540)}

\* discover has not been called
DiscoverIdle ==
    /\ files = <<>>
    /\ schema = <<>>
    /\ publications = <<>>
    /\ dpc = "idle"
    /\ cur = <<>>
    /\ derror = NoError

\* build has not been called
BuildIdle ==
    /\ parent = <<>>
    /\ ignore_release_time = FALSE
    /\ run_returncode = <<>>
    /\ file_exists = <<>>
    /\ clock = 0
    /\ bpc = "idle"
    /\ visit = <<0, 0>>
    /\ run_calls = <<>>
    /\ callbacks = <<>>
    /\ new_children = <<>>
    /\ built = <<>>
    /\ berror = NoError
    /\ copied = <<>>
    /\ published_json = <<>>

\* serialize has not been called
SerializeIdle ==
    /\ original = <<>>
    /\ artifact_is_instance = FALSE
    /\ serialized = <<>>
    /\ deserialized = <<>>
    /\ spc = "idle"
    /\ serror = NoError

\* filter_nodes has not been called
FilterIdle ==
    /\ tree = <<>>
    /\ predicate = ""
    /\ remove_empty_nodes = FALSE
    /\ filtered = <<>>
    /\ fpc = "idle"

\* resolve_smart_dates has been called and has not begun
Idle ==
    /\ pc = "start"
    /\ nodes = <<>>
    /\ order = <<>>
    /\ universe = <<>>
    /\ evaluated = <<>>
    /\ resolved = <<>>
    /\ raised = NoError

\* batches of up to MaxBatch rules referring to each other
InitGraph ==
    /\ key_order \in Orders(BatchNames)
    /\ smart_dates \in [{key_order[i] : i \in 1..Len(key_order)} -> GraphPool]
    /\ known \in GraphKnown
    /\ start_of_week_one = None
    /\ Idle
    /\ SerializeIdle
    /\ FilterIdle
    /\ DiscoverIdle
    /\ BuildIdle

\* a batch of one rule of any form, alone or with a second rule that
\* refers to it, in either insertion order
InitEval ==
    /\ key_order \in {<<"foo">>, <<"foo", "bar">>, <<"bar", "foo">>}
    /\ smart_dates \in
         IF Len(key_order) = 1
         THEN {"foo" :> v : v \in EvalPool}
         ELSE {"foo" :> v @@ "bar" :> w : v \in EvalPool, w \in DependentPool}
    /\ known \in IF Len(key_order) = 1 THEN EvalKnown ELSE ChainKnown
    /\ start_of_week_one \in IF Len(key_order) = 1 THEN EvalStart ELSE ChainStart
    /\ Idle
    /\ SerializeIdle
    /\ FilterIdle
    /\ DiscoverIdle
    /\ BuildIdle

(***************************************************************************)
(* The steps of resolve_smart_dates                                        *)
(***************************************************************************)
\* universe = date_context.known.copy(); nodes = {k: _parse(v) ...}
Parse ==
    /\ pc = "start"
    /\ LET parsed == ParseBatch(key_order, smart_dates)
       IN /\ universe' = known
          /\ nodes' = parsed.nodes
          /\ raised' = parsed.error
          /\ pc' = IF parsed.tag = "raise" THEN "raised" ELSE "parsed"
    /\ UNCHANGED <<smart_dates, key_order, known, start_of_week_one, order,
                   evaluated, resolved>>
    /\ UNCHANGED <<discoverVars, buildVars, publishVars, serializeVars,
                   filterVars>>

\* order = _topological_sort(nodes)
Sort ==
    /\ pc = "parsed"
    /\ LET sorted == _topological_sort(key_order, nodes)
       IN /\ order' = sorted.order
          /\ raised' = sorted.error
          /\ pc' = IF sorted.tag = "raise" THEN "raised" ELSE "resolving"
    /\ UNCHANGED <<smart_dates, key_order, known, start_of_week_one, nodes,
                   universe, evaluated, resolved>>
    /\ UNCHANGED <<discoverVars, buildVars, publishVars, serializeVars,
                   filterVars>>

\* an iteration that leaves a pre-known value of the key in place
ResolveNodeKeepsKnown ==
    /\ pc = "resolving"
    /\ Len(evaluated) < Len(order)
    /\ LET key == order[Len(evaluated) + 1]
           r == Resolve(nodes[key], universe, start_of_week_one)
       IN /\ evaluated' = Append(evaluated, key)
          /\ universe' = IF r.tag = "raise" THEN universe
                         ELSE universe @@ (key :> r.value)
          /\ raised' = r.error
          /\ pc' = IF r.tag = "raise" THEN "raised" ELSE "resolving"
    /\ UNCHANGED <<smart_dates, key_order, known, start_of_week_one, nodes,
                   order, resolved>>
    /\ UNCHANGED <<discoverVars, buildVars, publishVars, serializeVars,
                   filterVars>>

\* an iteration that writes to date_context.known itself
ResolveNodeInPlace ==
    /\ pc = "resolving"
    /\ Len(evaluated) < Len(order)
    /\ LET key == order[Len(evaluated) + 1]
           r == Resolve(nodes[key], universe, start_of_week_one)
       IN /\ evaluated' = Append(evaluated, key)
          /\ universe' = IF r.tag = "raise" THEN universe
                         ELSE (key :> r.value) @@ universe
          /\ known' = universe'
          /\ raised' = r.error
          /\ pc' = IF r.tag = "raise" THEN "raised" ELSE "resolving"
    /\ UNCHANGED <<smart_dates, key_order, start_of_week_one, nodes,
                   order, resolved>>
    /\ UNCHANGED <<discoverVars, buildVars, publishVars, serializeVars,
                   filterVars>>

\* one iteration of "for key in order": universe[key] = node.resolve(...)
ResolveNode ==
    /\ pc = "resolving"
    /\ Len(evaluated) < Len(order)
    /\ LET key == order[Len(evaluated) + 1]
           r == Resolve(nodes[key], universe, start_of_week_one)
       IN /\ evaluated' = Append(evaluated, key)
          /\ universe' = IF r.tag = "raise" THEN universe
                         ELSE (key :> r.value) @@ universe
          /\ raised' = r.error
          /\ pc' = IF r.tag = "raise" THEN "raised" ELSE "resolving"
    /\ UNCHANGED <<smart_dates, key_order, known, start_of_week_one, nodes,
                   order, resolved>>
    /\ UNCHANGED <<discoverVars, buildVars, publishVars, serializeVars,
                   filterVars>>

\* return {k: universe[k] for k in smart_dates}
Return ==
    /\ pc = "resolving"
    /\ Len(evaluated) = Len(order)
    /\ resolved' = [k \in DOMAIN smart_dates |-> universe[k]]
    /\ pc' = "returned"
    /\ UNCHANGED <<smart_dates, key_order, known, start_of_week_one, nodes,
                   order, universe, evaluated, raised>>
    /\ UNCHANGED <<discoverVars, buildVars, publishVars, serializeVars,
                   filterVars>>

Next == Parse \/ Sort \/ ResolveNode \/ Return

Spec == InitEval /\ [][Next]_vars

SpecGraph == InitGraph /\ [][Next]_vars

(***************************************************************************)
(* Properties                                                              *)
(***************************************************************************)
Keys == DOMAIN smart_dates

\* node.resolve was called for key k
Attempted(k) == \E i \in 1..Len(evaluated) : evaluated[i] = k

\* node.resolve of key k raised
FailedAt(k) ==
    pc = "raised" /\ evaluated # <<>> /\ evaluated[Len(evaluated)] = k

\* node.resolve of key k returned and universe[k] holds its value
Done(k) == Attempted(k) /\ ~FailedAt(k)

\* _topological_sort has run: parsing raised nothing
Sorted == pc \in {"resolving", "returned"} \/ (pc = "raised" /\ nodes # <<>>)

CycleRaised ==
    pc = "raised" /\ raised = ValidationError("Cycle detected in smart date references.")

\* the edge of key k: its referent, when its rule is a direct, delta or
\* first-available reference to a key of the batch
EdgeOf(k) ==
    IF nodes[k].kind \in {"direct", "delta", "first"}
       /\ nodes[k].relative_to \in DOMAIN nodes
    THEN {nodes[k].relative_to} ELSE {}

\* the keys reached from k by exactly n edges
RECURSIVE ReachedBy(_, _)
ReachedBy(k, n) ==
    IF n = 0 THEN {k} ELSE UNION {EdgeOf(x) : x \in ReachedBy(k, n - 1)}

HasCycle ==
    \E k \in DOMAIN nodes : \E n \in 1..Cardinality(DOMAIN nodes) : k \in ReachedBy(k, n)

\* C1: once the batch is parsed, the sort raises the cycle error exactly
\* when the graph of references between batch keys has a cycle, whatever
\* the iteration order of the batch
C1_CycleExactly == Sorted => (CycleRaised <=> HasCycle)

\* a cycle through three keys is reported
C1_Witness ==
    /\ CycleRaised
    /\ Len(key_order) = 3
    /\ \A k \in DOMAIN nodes : ReachedBy(k, 1) # {k} /\ k \in ReachedBy(k, 3)

SwapAt(seq, i) == [seq EXCEPT ![i] = seq[i + 1], ![i + 1] = seq[i]]

\* C2: the call returns the same mapping, or raises, for the batch in any
\* other insertion order.  Every order is an initial state, so agreement
\* with the orders that differ by one exchange of neighbours gives
\* agreement between all orders.
C2_OrderIndependent ==
    pc \in {"returned", "raised"} =>
        \A i \in 1..(Len(key_order) - 1) :
            LET other == resolve_smart_dates(SwapAt(key_order, i), smart_dates,
                                             known, start_of_week_one)
            IN /\ other.resolved = resolved
               /\ (other.raised = NoError) <=> (pc = "returned")

\* three rules were evaluated in an order that is not their insertion order
C2_Witness ==
    /\ pc = "returned"
    /\ Len(key_order) = 3
    /\ order # key_order
    /\ \E k \in Keys : EdgeOf(k) # {} /\ \E x \in EdgeOf(k) : EdgeOf(x) # {}

\* the rule string of key k, and the same without its " at HH:MM:SS"
RawOf(k) == smart_dates[k].s

Body(s) == IF HasTimeSuffix(s) THEN SubSeq(s, 1, Len(s) - 2) ELSE s

KindOf(k) == IF nodes = <<>> THEN "none" ELSE nodes[k].kind

\* the value of the referent of key k in the working mapping
ReferentOf(k) == universe[nodes[k].relative_to]

\* C3: a returned mapping has the keys of the batch and holds only dates
\* and datetimes
C3_DatesOnly ==
    pc = "returned" =>
        /\ DOMAIN resolved = Keys
        /\ \A k \in Keys : IsDateOrDatetime(resolved[k])

\* C4: a first-available rule yields the nearest day, 1 to 7 days from the
\* referent in the stated direction, whose weekday is in the set
C4_FirstAvailable ==
    \A k \in Keys :
        Done(k) /\ KindOf(k) = "first" =>
            LET s == Body(RawOf(k))
                sign == IF Lower(s[Len(s) - 1]) = "after" THEN 1 ELSE -1
                days == nodes[k].day_of_the_week
                r == ReferentOf(k)
                v == universe[k]
                dist == sign * (v.day - r.day)
            IN /\ dist \in 1..DaysPerWeek
               /\ weekday(v) \in days
               /\ \A j \in 1..(dist - 1) : (r.day + sign * j) % DaysPerWeek \notin days

\* the weekday of the referent is in the set and the result is a week away
C4_Witness ==
    \E k \in Keys :
        /\ Done(k) /\ KindOf(k) = "first"
        /\ weekday(ReferentOf(k)) \in nodes[k].day_of_the_week
        /\ universe[k].day = ReferentOf(k).day - DaysPerWeek

OtherNumber ==
    "day" :> "days" @@ "days" :> "day" @@ "hour" :> "hours" @@ "hours" :> "hour"
    @@ "HOURS" :> "HOUR" @@ "HOUR" :> "HOURS" @@ "DAYS" :> "DAY" @@ "DAY" :> "DAYS"

\* C5: a delta rule yields the referent moved by N units, back for
\* "before" and forward for "after", and the singular and the plural unit
\* word parse to the same rule
C5_Delta ==
    \A k \in Keys :
        KindOf(k) = "delta" =>
            LET s == Body(RawOf(k))
                n == IntOf[s[1]]
                sign == IF Lower(s[3]) = "before" THEN -1 ELSE 1
                hours == Lower(s[2]) \in {"hour", "hours"}
            IN /\ _parse(S([RawOf(k) EXCEPT ![2] = OtherNumber[s[2]]])).node = nodes[k]
               /\ Done(k) =>
                    LET r == universe[s[4]]
                        v == universe[k]
                    IN IF hours
                       THEN /\ v.type = "datetime"
                            /\ v.day * SecondsPerDay + v.sec
                                 = r.day * SecondsPerDay + r.sec + sign * n * SecondsPerHour
                       ELSE /\ v.day = r.day + sign * n
                            /\ ~HasTimeSuffix(RawOf(k)) => v = [r EXCEPT !.day = v.day]

\* a plural hour delta before a datetime reaches the day before
C5_Witness ==
    \E k \in Keys :
        /\ Done(k) /\ KindOf(k) = "delta"
        /\ RawOf(k)[2] = "HOURS" /\ RawOf(k)[3] = "before"
        /\ universe[k].day < ReferentOf(k).day

\* the value a rule is computed from: the anchor of a week rule, the
\* referent of the other rules
AnchorOf(k) == IF KindOf(k) = "week" THEN start_of_week_one ELSE ReferentOf(k)

\* C6: with a time T the result is the datetime of the computed day at T;
\* without a time it has the type and the time of day of the referent or
\* anchor, and a direct reference is the referent unchanged
C6_TimeCombination ==
    \A k \in Keys :
        Done(k) /\ KindOf(k) \in {"direct", "delta", "first", "week"}
          /\ ~nodes[k].is_hours_delta =>
            LET s == RawOf(k)
                v == universe[k]
                untimed == Resolve(_parse(S(Body(s))).node, universe, start_of_week_one)
            IN IF HasTimeSuffix(s)
               THEN /\ untimed.tag = "value"
                    /\ v = Datetime(untimed.value.day, SecondsOf(TimeParts[s[Len(s)]]))
               ELSE /\ v.type = AnchorOf(k).type
                    /\ v.sec = AnchorOf(k).sec
                    /\ KindOf(k) = "direct" => v = AnchorOf(k)

\* the time of a datetime referent is overwritten
C6_Witness ==
    \E k \in Keys :
        /\ Done(k) /\ KindOf(k) = "first" /\ HasTimeSuffix(RawOf(k))
        /\ ReferentOf(k).type = "datetime"
        /\ ReferentOf(k).sec # universe[k].sec

\* C7: a week rule yields the day of the named weekday among the seven
\* days from start_of_week_one + 7 * (N - 1) on, and the week number may
\* be zero-padded
C7_Week ==
    \A k \in Keys :
        Done(k) /\ KindOf(k) = "week" =>
            LET s == Body(RawOf(k))
                n == IntOf[s[4]]
                first_day == start_of_week_one.day + DaysPerWeek * (n - 1)
                v == universe[k]
            IN /\ first_day <= v.day /\ v.day <= first_day + 6
               /\ weekday(v) = _DaysOfTheWeek[Upper(s[1])]
               /\ \A m \in DOMAIN IntOf :
                    IntOf[m] = n =>
                        Resolve(_parse(S([RawOf(k) EXCEPT ![4] = m])).node,
                                universe, start_of_week_one) = Returned(v)

\* "tuesday of week 02" from Thursday 2020-12-10 is 2020-12-22
C7_Witness ==
    \E k \in Keys :
        /\ Done(k) /\ KindOf(k) = "week"
        /\ start_of_week_one = Date(3)
        /\ RawOf(k) = <<"TUESDAY", "of", "week", "02">>
        /\ universe[k] = Date(15)

IsHourDelta(k) ==
    KindOf(k) = "delta" /\ Lower(Body(RawOf(k))[2]) \in {"hour", "hours"}

\* C8: the evaluation of an hour delta whose referent is a date raises
\* ValidationError and the call returns nothing
C8_HourDeltaOnDate ==
    \A k \in Keys :
        /\ Attempted(k) /\ IsHourDelta(k)
        /\ nodes[k].relative_to \in DOMAIN universe
        /\ ReferentOf(k).type = "date"
        => /\ FailedAt(k)
           /\ raised.exc = "ValidationError"
           /\ resolved = <<>>

\* 24 hours after a date is refused
C8_Witness ==
    \E k \in Keys :
        /\ FailedAt(k) /\ IsHourDelta(k)
        /\ IntOf[RawOf(k)[1]] = 24 /\ RawOf(k)[3] = "after"
        /\ nodes[k].relative_to \in DOMAIN universe
        /\ ReferentOf(k).type = "date"
        /\ raised = ValidationError("Cannot use hours delta in reference to a date")

\* C9: the evaluation of an hour delta with an exact time raises
\* ValidationError, whether the referent is a date or a datetime, and the
\* call returns nothing
C9_HourDeltaWithTime ==
    \A k \in Keys :
        Attempted(k) /\ IsHourDelta(k) /\ HasTimeSuffix(RawOf(k)) =>
            /\ FailedAt(k)
            /\ resolved = <<>>
            /\ (nodes[k].relative_to \in DOMAIN universe
                  => IsDateOrDatetime(ReferentOf(k)))
               => raised.exc = "ValidationError"

\* an hour delta from a datetime is refused because of its exact time
C9_Witness ==
    \E k \in Keys :
        /\ FailedAt(k) /\ IsHourDelta(k) /\ HasTimeSuffix(RawOf(k))
        /\ nodes[k].relative_to \in DOMAIN universe
        /\ ReferentOf(k).type = "datetime"
        /\ raised = ValidationError("Cannot use hours delta and specify an exact time.")

\* C10: the evaluation of a rule whose referent is neither known nor a key
\* of the batch raises the unknown-field ValidationError, and that of a
\* rule whose referent is known or in the batch never does
C10_UnknownReference ==
    \A k \in Keys :
        Attempted(k) /\ KindOf(k) \in {"direct", "delta", "first"} =>
            IF nodes[k].relative_to \in DOMAIN known \cup Keys
            THEN ~(FailedAt(k) /\ raised = UnknownField)
            ELSE FailedAt(k) /\ raised = UnknownField /\ resolved = <<>>

\* a first-available rule with an unknown referent is refused
C10_Witness ==
    \E k \in Keys :
        /\ FailedAt(k) /\ KindOf(k) = "first"
        /\ nodes[k].relative_to \notin DOMAIN known \cup Keys
        /\ raised = UnknownField

NoAnchor == ValidationError("Start date of week one was not provided.")

\* C11: without start_of_week_one the evaluation of a week rule raises the
\* missing-anchor ValidationError and the call returns nothing; the
\* evaluation of a rule of any other variant never raises it, so a call
\* that raises it has a week rule in its batch
C11_AnchorRequired ==
    /\ \A k \in Keys :
          Attempted(k) =>
              IF KindOf(k) = "week" /\ start_of_week_one = None
              THEN FailedAt(k) /\ raised = NoAnchor /\ resolved = <<>>
              ELSE ~(FailedAt(k) /\ raised = NoAnchor)
    /\ raised = NoAnchor => \E k \in Keys : KindOf(k) = "week"
    /\ pc = "returned" /\ start_of_week_one = None =>
          \A k \in Keys : KindOf(k) # "week"

\* a week rule without an anchor ends a batch of two rules before the rule
\* that refers to it is evaluated
C11_Witness ==
    /\ start_of_week_one = None
    /\ Cardinality(Keys) = 2
    /\ FailedAt("foo") /\ KindOf("foo") = "week"
    /\ raised = NoAnchor
    /\ ~Attempted("bar")

\* the position of the field-name token in the rule string of key k, 0 when
\* the rule has none
FieldPos(k) ==
    CASE KindOf(k) = "direct" -> 1
      [] KindOf(k) \in {"delta", "first"} -> Len(Body(RawOf(k)))
      [] OTHER -> 0

\* the tokens of the vocabulary that differ from t in letter case at most
CaseVariants(t) ==
    IF t \in LetterTokens THEN {r[1] : r \in {q \in CaseTable : q[2] = Lower(t)}}
    ELSE {t}

\* C12: the call has the same outcome when any token of a parsed rule other
\* than its field name is written in another letter case
C12_CaseInsensitive ==
    pc \in {"returned", "raised"} /\ nodes # <<>> =>
        \A k \in Keys : \A i \in 1..Len(RawOf(k)) :
            i # FieldPos(k) =>
                \A t \in CaseVariants(RawOf(k)[i]) :
                    LET rule == S([RawOf(k) EXCEPT ![i] = t])
                        other == resolve_smart_dates(
                                     key_order, [smart_dates EXCEPT ![k] = rule],
                                     known, start_of_week_one)
                    IN /\ other.resolved = resolved
                       /\ other.raised.exc = raised.exc

\* the batch value of key k is a date or a datetime
IsLiteral(k) == ~smart_dates[k].isstr /\ IsDateOrDatetime(smart_dates[k].v)

C14_InputsUntouched ==
    /\ [][/\ smart_dates' = smart_dates
          /\ key_order' = key_order
          /\ known' = known
          /\ start_of_week_one' = start_of_week_one]_vars
    /\ [](pc \in {"returned", "raised"} =>
            resolve_smart_dates(key_order, smart_dates, known, start_of_week_one)
              = Outcome(resolved, raised))

\* the call returned a value for a key under which known still holds
\* another value
C14_Witness ==
    /\ pc = "returned"
    /\ \E k \in Keys \cap DOMAIN known :
          /\ universe[k] # known[k]
          /\ resolved[k] = universe[k]

\* C15: the week number of a parsed week rule is at least 1, and the value
\* of a week rule is not earlier than start_of_week_one
C15_WeekNumberPositive ==
    \A k \in Keys :
        KindOf(k) = "week" =>
            /\ nodes[k].week_number >= 1
            /\ Done(k) => universe[k].day >= start_of_week_one.day

(***************************************************************************)
(* Discovery: the publications of one collection are read in path order.   *)
(* A publication file is what yaml.load makes of it: metadata and release  *)
(* times are raw values, a str or an object.                               *)
(***************************************************************************)
DiscoveryError(m) == [exc |-> "DiscoveryError", msg |-> m]

\* the metadata fields, in the order of the file
FieldOrder == <<"title", "released", "due">>

\* "metadata." + k
MetadataKey ==
    "title" :> "metadata.title" @@ "released" :> "metadata.released" @@
    "due" :> "metadata.due"

\* f"previous.metadata.{key}"
PreviousKey ==
    "title" :> "previous.metadata.title" @@
    "released" :> "previous.metadata.released" @@
    "due" :> "previous.metadata.due"

\* a value read from the file as the program holds it
ValueOf(raw) == IF raw.isstr THEN Str ELSE raw.v

\* the keys of a mapping over the metadata fields, in file order
KeysOf(m) == SelectSeq(FieldOrder, LAMBDA k : k \in DOMAIN m)

\* metadata_schema is None, or maps each field to its type
NoMetadataSchema == [given |-> FALSE, types |-> <<>>]

MetadataSchema(types) == [given |-> TRUE, types |-> types]

DReturned(v) == [tag |-> "value", value |-> v, error |-> NoError]

DRaised(e) == [tag |-> "raise", value |-> <<>>, error |-> e]

\* except ValidationError as exc: raise DiscoveryError(str(exc), path);
\* any other exception passes
Wrapped(e) == IF e.exc = "ValidationError" THEN DiscoveryError(e.msg) ELSE e

\* the checks of quick_schema on the release times: a publication's is a
\* datetime, a string or null, an artifact's a smartdatetime or null
QuickType(raw) == raw.isstr \/ raw.v = None \/ raw.v.type = "datetime"

QuickValid(file) ==
    /\ QuickType(file.release_time)
    /\ \A i \in 1..Len(file.artifacts) : QuickType(file.artifacts[i].release_time)

_is_smart_date(metadata_schema, k) ==
    /\ metadata_schema.given
    /\ k \in DOMAIN metadata_schema.types
    /\ metadata_schema.types[k] \in {"smartdate", "smartdatetime"}

\* the part of _resolve_smart_dates_in_metadata after the call of
\* resolve_smart_dates: the resolved values are written over a copy
MetadataResult(out, plain) ==
    IF out.raised # NoError THEN DRaised(Wrapped(out.raised))
    ELSE DReturned(out.resolved @@ plain)

_resolve_smart_dates_in_metadata(metadata, metadata_schema, kn, start) ==
    LET smart == {k \in DOMAIN metadata : _is_smart_date(metadata_schema, k)}
        batch == [k \in smart |-> metadata[k]]
        plain == [k \in DOMAIN metadata \ smart |-> ValueOf(metadata[k])]
    IN MetadataResult(
           resolve_smart_dates(KeysOf(batch), batch, plain @@ kn, start), plain)

\* the known mapping with every metadata field added under "metadata." + k
WithMetadataKeys(metadata, kn) ==
    [t \in {MetadataKey[k] : k \in DOMAIN metadata} |->
        metadata[CHOOSE k \in DOMAIN metadata : MetadataKey[k] = t]] @@ kn

\* a release time that passes any resolved value on
ReleaseTimeOfAnyType(out) ==
    IF out.raised # NoError THEN DRaised(Wrapped(out.raised))
    ELSE DReturned(out.resolved["release_time"])

\* the part of _resolve_smart_dates_in_release_time after the call of
\* resolve_smart_dates
ReleaseTimeResult(out) ==
    IF out.raised # NoError THEN DRaised(Wrapped(out.raised))
    ELSE IF out.resolved["release_time"].type # "datetime"
    THEN DRaised(DiscoveryError("release_time is not a datetime."))
    ELSE DReturned(out.resolved["release_time"])

_resolve_smart_dates_in_release_time(release_time, metadata, kn, start) ==
    IF ~release_time.isstr THEN DReturned(release_time.v)
    ELSE ReleaseTimeResult(
             resolve_smart_dates(<<"release_time">>, "release_time" :> release_time,
                                 WithMetadataKeys(metadata, kn), start))

\* previous keys for every field of the previous publication
AddPreviousKeysOfEveryField(kn, pubs, is_ordered) ==
    IF ~is_ordered \/ pubs = <<>> THEN kn
    ELSE LET prev_meta == pubs[Len(pubs)].metadata
         IN [t \in {PreviousKey[k] : k \in DOMAIN prev_meta} |->
                prev_meta[CHOOSE k \in DOMAIN prev_meta : PreviousKey[k] = t]] @@ kn

\* _add_previous_keys: the known mapping of the date context handed to
\* read_publication_file
_add_previous_keys(kn, pubs, is_ordered) ==
    IF ~is_ordered \/ pubs = <<>> THEN kn
    ELSE LET prev_meta == pubs[Len(pubs)].metadata
             dated == {k \in DOMAIN prev_meta : IsDateOrDatetime(prev_meta[k])}
         IN [t \in {PreviousKey[k] : k \in dated} |->
                prev_meta[CHOOSE k \in dated : PreviousKey[k] = t]] @@ kn

\* the types of a metadata schema as cerberus checks them
TypeAccepts(type, v) ==
    CASE type = "string" -> v.type = "str"
      [] type = "smartdate" -> v.type \in {"str", "date", "datetime"}
      [] type = "smartdatetime" -> v.type \in {"str", "datetime"}

\* validate(publication, against=schema): the error it raises, if any
validate(publication, against) ==
    LET types == against.metadata_schema.types
        provided == {publication.artifacts[i].name :
                        i \in 1..Len(publication.artifacts)}
        extra == provided \ (against.required_artifacts
                               \cup against.optional_artifacts)
    IN IF /\ against.metadata_schema.given
          /\ \/ DOMAIN publication.metadata # DOMAIN types
             \/ \E k \in DOMAIN types :
                   ~TypeAccepts(types[k], publication.metadata[k])
       THEN ValidationError("Invalid metadata.")
       ELSE IF against.required_artifacts \ provided # {}
       THEN ValidationError("Required artifacts omitted.")
       ELSE IF extra # {} /\ ~against.allow_unspecified_artifacts
       THEN ValidationError("Unknown artifacts provided.")
       ELSE NoError

(***************************************************************************)
(* The inputs of discover                                                  *)
(***************************************************************************)
Field(name, raw) == name :> raw

\* metadata: a title and two dates, given or smart
MetaPool ==
    LET title == Field("title", S(<<"title">>))
    IN { title @@ Field("released", Obj(Datetime(1, 0)))
               @@ Field("due", S(<<"7", "days", "after", "released">>)),
         title @@ Field("released", Obj(Date(1)))
               @@ Field("due", S(<<"released">>)),
         title @@ Field("released", Obj(Datetime(1, 0)))
               @@ Field("due", S(<<"7", "days", "after", "previous.metadata.due">>)),
         title @@ Field("released", Obj(Datetime(1, 0)))
               @@ Field("due", S(<<"previous.metadata.title">>)),
         title @@ Field("released", Obj(Date(1)))
               @@ Field("due", S(<<"title">>)),
         Field("released", Obj(Datetime(1, 0)))
               @@ Field("due", Obj(Datetime(8, 0))) }

\* release_time of a publication
PublicationReleasePool ==
    { Obj(None), Obj(Datetime(9, 0)), Obj(Date(9)),
      S(<<"metadata.due", "at", "13:13:13">>),
      S(<<"1", "day", "after", "metadata.due">>) }

\* release_time of an artifact
ArtifactReleasePool ==
    { Obj(None), Obj(Datetime(9, 0)), S(<<"metadata.due">>),
      S(<<"metadata.released">>), S(<<"metadata.title">>), S(<<"due">>),
      S(<<"3", "hours", "before", "metadata.due">>) }

ArtifactDefinition(name, file, release_time) ==
    [name |-> name, file |-> file, release_time |-> release_time]

\* the artifacts of a file; a definition without a file has file ""
ArtifactsPool ==
    { <<ArtifactDefinition("homework", "", r)>> : r \in ArtifactReleasePool }
    \cup { << ArtifactDefinition("homework", "homework.pdf", Obj(None)),
              ArtifactDefinition("solution", "", S(<<"metadata.due">>)) >>,
           << ArtifactDefinition("solution", "solution.pdf", Obj(None)) >> }

\* the path of a publication: the key of the collection whose directory it
\* is under, and its directory there, 1 standing for "01", 2 for "02"
Path(collection, name) == [collection |-> collection, name |-> name]

\* the files of the collection "homeworks"; Init names their directories
FilePool ==
    { [path |-> Path("homeworks", 0), metadata |-> m, release_time |-> r,
       ready |-> TRUE, artifacts |-> a] :
        m \in MetaPool, r \in PublicationReleasePool, a \in ArtifactsPool }

\* the files read before the last one
PreviousFilePool ==
    { f \in FilePool :
        /\ f.release_time = Obj(None)
        /\ f.artifacts = <<ArtifactDefinition("homework", "", Obj(None))>>
        /\ "title" \in DOMAIN f.metadata
        /\ f.metadata["due"] # S(<<"previous.metadata.title">>) }

\* a file of the collection "exams", whose directory sorts before "homeworks"
ExamFile ==
    [path |-> Path("exams", 0),
     metadata |-> Field("title", S(<<"title">>)) @@ Field("due", Obj(Datetime(2, 0))),
     release_time |-> Obj(None), ready |-> TRUE,
     artifacts |-> <<ArtifactDefinition("homework", "", Obj(None))>>]

\* the files read before the last one, by path: n of them, those of "exams"
\* before those of "homeworks"
EarlierFiles(n) ==
    { p \in [1..n -> PreviousFilePool \cup {ExamFile}] :
        \A i \in 1..(n - 1) :
            p[i].path.collection = "homeworks" => p[i + 1].path.collection = "homeworks" }

\* the orders in which the search may find n publications
Found(n) == { o \in [1..n -> 1..n] : \A i, j \in 1..n : i # j => o[i] # o[j] }

\* the schema of the collection "exams": ordered, without metadata schema
ExamsSchema ==
    [metadata_schema |-> NoMetadataSchema, is_ordered |-> TRUE,
     required_artifacts |-> {"homework"}, optional_artifacts |-> {},
     allow_unspecified_artifacts |-> FALSE]

SchemaPool ==
    { [metadata_schema |-> ms, is_ordered |-> o,
       required_artifacts |-> {"homework"}, optional_artifacts |-> {"solution"},
       allow_unspecified_artifacts |-> FALSE] :
        ms \in { NoMetadataSchema,
                 MetadataSchema("title" :> "string" @@ "released" :> "smartdate"
                                @@ "due" :> "smartdate") },
        o \in BOOLEAN }

DiscoverKnown == { <<>>, "due" :> Datetime(8, 0) }

\* the locals of read_publication_file; left_at is the position at which an
\* exception left it
NoCur == [context |-> <<>>, metadata |-> <<>>, artifacts |-> <<>>,
          release_time |-> None, left_at |-> ""]

\* the publication files as the search found them: up to MaxPublications,
\* the last of them by path of any content when it has at most one before it
InitDiscover ==
    /\ files \in UNION { { [i \in 1..(n + 1) |->
                                [(p \o <<f>>)[o[i]] EXCEPT !.path.name = o[i]]] :
                            p \in EarlierFiles(n),
                            f \in IF n <= 1 THEN FilePool ELSE PreviousFilePool,
                            o \in Found(n + 1) }
                         : n \in 0..(MaxPublications - 1) }
    /\ schema \in SchemaPool
    /\ known \in DiscoverKnown
    /\ start_of_week_one = None
    /\ publications = <<>>
    /\ dpc = "found"
    /\ cur = NoCur
    /\ derror = NoError
    /\ smart_dates = <<>> /\ key_order = <<>>
    /\ Idle
    /\ SerializeIdle
    /\ FilterIdle
    /\ BuildIdle

(***************************************************************************)
(* The steps of discover: _make_publications and, for each file,           *)
(* read_publication_file                                                   *)
(***************************************************************************)
\* sorted() of two paths: by collection directory, then by directory
PathBefore(a, b) ==
    \/ a.collection = "exams" /\ b.collection = "homeworks"
    \/ a.collection = b.collection /\ a.name < b.name

\* _sort_dictionary(publication_paths)
_sort_dictionary(dct) ==
    [i \in 1..Len(dct) |->
        dct[CHOOSE j \in 1..Len(dct) :
               Cardinality({k \in 1..Len(dct) : PathBefore(dct[k].path, dct[j].path)})
                   = i - 1]]

\* discover up to the call of _make_publications
SortPaths ==
    /\ dpc = "found"
    /\ files' = _sort_dictionary(files)
    /\ dpc' = "next"
    /\ UNCHANGED <<schema, publications, cur, derror>>
    /\ UNCHANGED <<smartDateVars, buildVars, publishVars, serializeVars,
                   filterVars>>

\* the file being read
NextFile == files[Len(publications) + 1]

\* collections[collection_key].schema
SchemaOf(collection_key) ==
    IF collection_key = "homeworks" THEN schema ELSE ExamsSchema

\* every publication read so far counts as one of the collection
PublicationsOfAnyCollection(collection_key) == publications

\* collections[collection_key].publications, in insertion order
PublicationsOf(collection_key) ==
    SelectSeq(publications, LAMBDA p : p.collection = collection_key)

Leave(e) ==
    /\ dpc' = "raised"
    /\ derror' = e
    /\ cur' = [cur EXCEPT !.left_at = dpc]

\* publication_date_context = _add_previous_keys(date_context, collection),
\* then read_publication_file up to the validation against quick_schema
StartPublication ==
    /\ dpc = "next"
    /\ Len(publications) < Len(files)
    /\ \E context \in {_add_previous_keys(
                          known, PublicationsOf(NextFile.path.collection),
                          SchemaOf(NextFile.path.collection).is_ordered)} :
          IF QuickValid(NextFile)
          THEN /\ cur' = [NoCur EXCEPT !.context = context]
               /\ dpc' = "metadata"
               /\ derror' = derror
          ELSE /\ cur' = [NoCur EXCEPT !.context = context, !.left_at = dpc]
               /\ dpc' = "raised"
               /\ derror' = DiscoveryError("validator.errors")
    /\ UNCHANGED <<files, schema, publications>>
    /\ UNCHANGED <<smartDateVars, buildVars, publishVars, serializeVars,
                   filterVars>>

\* metadata = _resolve_smart_dates_in_metadata(...)
ResolveMetadata ==
    /\ dpc = "metadata"
    /\ \E r \in {_resolve_smart_dates_in_metadata(
                    NextFile.metadata,
                    SchemaOf(NextFile.path.collection).metadata_schema, cur.context,
                    start_of_week_one)} :
          IF r.tag = "raise" THEN Leave(r.error)
          ELSE /\ cur' = [cur EXCEPT !.metadata = r.value]
               /\ dpc' = "artifacts"
               /\ derror' = derror
    /\ UNCHANGED <<files, schema, publications>>
    /\ UNCHANGED <<smartDateVars, buildVars, publishVars, serializeVars,
                   filterVars>>

\* one iteration of "for key, definition in validated["artifacts"].items()"
ResolveArtifact ==
    /\ dpc = "artifacts"
    /\ Len(cur.artifacts) < Len(NextFile.artifacts)
    /\ \E definition \in {NextFile.artifacts[Len(cur.artifacts) + 1]} :
       \E r \in {_resolve_smart_dates_in_release_time(
                    definition.release_time, cur.metadata, cur.context,
                    start_of_week_one)} :
          IF r.tag = "raise" THEN Leave(r.error)
          ELSE /\ cur' = [cur EXCEPT !.artifacts = Append(@,
                            [name |-> definition.name,
                             file |-> IF definition.file = ""
                                      THEN definition.name ELSE definition.file,
                             release_time |-> r.value])]
               /\ UNCHANGED <<dpc, derror>>
    /\ UNCHANGED <<files, schema, publications>>
    /\ UNCHANGED <<smartDateVars, buildVars, publishVars, serializeVars,
                   filterVars>>

\* release_time = _resolve_smart_dates_in_release_time(validated["release_time"], ...)
ResolveReleaseTime ==
    /\ dpc = "artifacts"
    /\ Len(cur.artifacts) = Len(NextFile.artifacts)
    /\ \E r \in {_resolve_smart_dates_in_release_time(
                    NextFile.release_time, cur.metadata, cur.context,
                    start_of_week_one)} :
          IF r.tag = "raise" THEN Leave(r.error)
          ELSE /\ cur' = [cur EXCEPT !.release_time = r.value]
               /\ dpc' = "validate"
               /\ derror' = derror
    /\ UNCHANGED <<files, schema, publications>>
    /\ UNCHANGED <<smartDateVars, buildVars, publishVars, serializeVars,
                   filterVars>>

\* validate(publication, against=schema), return publication, and
\* collection.publications[publication_key] = publication
ValidatePublication ==
    /\ dpc = "validate"
    /\ LET publication == [collection |-> NextFile.path.collection,
                           metadata |-> cur.metadata,
                           artifacts |-> cur.artifacts,
                           ready |-> NextFile.ready,
                           release_time |-> cur.release_time]
           e == validate(publication, SchemaOf(NextFile.path.collection))
       IN IF e # NoError
          THEN Leave(Wrapped(e)) /\ UNCHANGED publications
          ELSE /\ publications' = Append(publications, publication)
               /\ cur' = NoCur
               /\ dpc' = "next"
               /\ derror' = derror
    /\ UNCHANGED <<files, schema>>
    /\ UNCHANGED <<smartDateVars, buildVars, publishVars, serializeVars,
                   filterVars>>

\* return Universe(collections)
ReturnUniverse ==
    /\ dpc = "next"
    /\ Len(publications) = Len(files)
    /\ dpc' = "returned"
    /\ UNCHANGED <<files, schema, publications, cur, derror>>
    /\ UNCHANGED <<smartDateVars, buildVars, publishVars, serializeVars,
                   filterVars>>

NextDiscover ==
    \/ SortPaths
    \/ StartPublication
    \/ ResolveMetadata
    \/ ResolveArtifact
    \/ ResolveReleaseTime
    \/ ValidatePublication
    \/ ReturnUniverse

SpecDiscover == InitDiscover /\ [][NextDiscover]_vars

(***************************************************************************)
(* Properties of discover                                                  *)
(***************************************************************************)
NoneOrDatetime(v) == v = None \/ v.type = "datetime"

\* the known mapping read_publication_file was given for the i-th file
ContextOf(i) ==
    _add_previous_keys(
        known,
        SelectSeq(SubSeq(publications, 1, i - 1),
                  LAMBDA p : p.collection = files[i].path.collection),
        SchemaOf(files[i].path.collection).is_ordered)

\* a release time read from the file became the value v of a publication
\* whose metadata and context are given: an object is passed on, a string
\* is the rule v is computed by from the "metadata." keys
ReleaseTimeFrom(raw, v, metadata, context) ==
    IF raw.isstr
    THEN /\ _parse(raw).tag = "node"
         /\ Resolve(_parse(raw).node, WithMetadataKeys(metadata, context),
                    start_of_week_one) = Returned(v)
    ELSE v = raw.v

\* the release time read_publication_file was resolving when it was left
RawAtLeave ==
    IF Len(cur.artifacts) < Len(NextFile.artifacts)
    THEN NextFile.artifacts[Len(cur.artifacts) + 1].release_time
    ELSE NextFile.release_time

NotADatetime == DiscoveryError("release_time is not a datetime.")

\* C16: the release time of every publication read and of each of its
\* artifacts is None or a datetime; it is the object of the file, or the
\* value of the string of the file as a smart date over the metadata under
\* "metadata." keys; and the read is left with the not-a-datetime
\* DiscoveryError exactly when such a string resolves to another type
C16_ReleaseTimes ==
    /\ \A i \in 1..Len(publications) :
          LET p == publications[i]
          IN /\ NoneOrDatetime(p.release_time)
             /\ ReleaseTimeFrom(files[i].release_time, p.release_time,
                                p.metadata, ContextOf(i))
             /\ \A j \in 1..Len(p.artifacts) :
                   /\ NoneOrDatetime(p.artifacts[j].release_time)
                   /\ ReleaseTimeFrom(files[i].artifacts[j].release_time,
                                      p.artifacts[j].release_time,
                                      p.metadata, ContextOf(i))
    /\ dpc = "raised" /\ cur.left_at = "artifacts" =>
          /\ RawAtLeave.isstr
          /\ derror = NotADatetime <=>
                /\ _parse(RawAtLeave).tag = "node"
                /\ \E r \in {Resolve(_parse(RawAtLeave).node,
                                     WithMetadataKeys(cur.metadata, cur.context),
                                     start_of_week_one)} :
                      r.tag = "value" /\ r.value.type # "datetime"

\* a publication was read whose release time is a date of its metadata at a
\* time of day, and whose artifact is released at a datetime of the file
C16_Witness ==
    /\ dpc = "returned"
    /\ \E i \in 1..Len(publications) :
          LET p == publications[i]
          IN /\ files[i].release_time = S(<<"metadata.due", "at", "13:13:13">>)
             /\ p.metadata["due"].type = "date"
             /\ p.release_time = Datetime(p.metadata["due"].day, 47593)
             /\ p.artifacts[1].release_time = Datetime(9, 0)

\* read_publication_file is under way or was left, with a publication read
\* before it
HasPrevious ==
    /\ dpc \in {"metadata", "artifacts", "validate", "raised"}
    /\ PublicationsOf(NextFile.path.collection) # <<>>

\* whether the collection of the file being read is ordered
Ordered == SchemaOf(NextFile.path.collection).is_ordered

\* the metadata of the publication of the collection read last
PreviousMetadata ==
    PublicationsOf(NextFile.path.collection)[
        Len(PublicationsOf(NextFile.path.collection))].metadata

\* C17 as stated: in an ordered collection every metadata field of the
\* previous publication is in the context under its "previous.metadata."
\* key, with its value
C17_EveryFieldExposed ==
    HasPrevious /\ Ordered =>
        \A k \in DOMAIN PreviousMetadata :
            /\ PreviousKey[k] \in DOMAIN cur.context
            /\ cur.context[PreviousKey[k]] = PreviousMetadata[k]

SevenDaysAfterPrevious == S(<<"7", "days", "after", "previous.metadata.due">>)

\* C17, amended: in an ordered collection the context holds, under its
\* "previous.metadata." key, every metadata field of the previous
\* publication whose resolved value is a date or a datetime, and no other
\* field of it; a rule of the next publication is computed from that value;
\* in a collection that is not ordered the context is date_context.known
C17_DatedFieldsExposed ==
    /\ HasPrevious /\ Ordered =>
          /\ \A k \in DOMAIN PreviousMetadata :
                IF IsDateOrDatetime(PreviousMetadata[k])
                THEN /\ PreviousKey[k] \in DOMAIN cur.context
                     /\ cur.context[PreviousKey[k]] = PreviousMetadata[k]
                ELSE PreviousKey[k] \notin DOMAIN cur.context
          /\ /\ dpc \in {"artifacts", "validate"}
             /\ SchemaOf(NextFile.path.collection).metadata_schema.given
             /\ NextFile.metadata["due"] = SevenDaysAfterPrevious
             => cur.metadata["due"] =
                  [PreviousMetadata["due"] EXCEPT !.day = @ + DaysPerWeek]
    /\ HasPrevious /\ ~Ordered => cur.context = known

\* the due date of the second publication is a week after the due date the
\* first publication's rule resolved to
C17_Witness ==
    /\ dpc = "returned"
    /\ schema.is_ordered
    /\ Len(publications) = 2
    /\ files[1].metadata["due"] = S(<<"7", "days", "after", "released">>)
    /\ files[2].metadata["due"] = SevenDaysAfterPrevious
    /\ publications[1].metadata["due"] = Datetime(8, 0)
    /\ publications[2].metadata["due"] = Datetime(15, 0)

(***************************************************************************)
(* Build: build(parent) of a collection visits its publications in order   *)
(* and, in each publication it enters, the artifacts in order.  run and    *)
(* exists are the functions handed to build; now() reads the clock.        *)
(***************************************************************************)
BuildError(m) == [exc |-> "BuildError", msg |-> m]

\* datetime.datetime.now()
Now(c) == Datetime(8, c)

\* a > b on datetimes
Later(a, b) == a.day > b.day \/ (a.day = b.day /\ a.sec > b.sec)

\* "not ignore_release_time and node.release_time is not None and
\* node.release_time > now()"
TooSoon(node, ignore, now) ==
    ~ignore /\ node.release_time # None /\ Later(node.release_time, now)

\* an artifact without a recipe has recipe ""
UnbuiltArtifact(workdir, file, recipe, release_time, ready, missing_ok) ==
    [workdir |-> workdir, file |-> file, recipe |-> recipe,
     release_time |-> release_time, ready |-> ready, missing_ok |-> missing_ok]

\* the returncode of a BuiltArtifact made without a process (None)
NoProcess == -1

BuiltArtifact(workdir, file, returncode) ==
    [workdir |-> workdir, file |-> file, returncode |-> returncode]

\* the ways _build_artifact ends, with the callbacks it made on the way;
\* run is called right after on_recipe
ArtifactOutcome(tag, events, value, error) ==
    [tag |-> tag, events |-> events, value |-> value, error |-> error]

NoArtifact == BuiltArtifact("", "", NoProcess)

\* "if artifact.recipe is None: ... else: callbacks.on_recipe(artifact)"
OnRecipe(artifact) == IF artifact.recipe = "" THEN <<>> ELSE <<"on_recipe">>

\* the end of _build_artifact, from "filepath = artifact.workdir / artifact.file"
CollectFile(artifact, code, exists) ==
    IF ~exists
    THEN IF artifact.missing_ok
         THEN ArtifactOutcome("none", OnRecipe(artifact) \o <<"on_missing">>,
                              NoArtifact, NoError)
         ELSE ArtifactOutcome("raise", OnRecipe(artifact), NoArtifact,
                              BuildError("Artifact file does not exist."))
    ELSE ArtifactOutcome("built", OnRecipe(artifact) \o <<"on_success">>,
             BuiltArtifact(artifact.workdir, artifact.file,
                           IF artifact.recipe = "" THEN NoProcess ELSE code),
             NoError)

\* an artifact is built whether or not it is ready
BuildArtifactIgnoringReady(artifact, ignore, now, code, exists) ==
    IF TooSoon(artifact, ignore, now)
    THEN ArtifactOutcome("none", <<"on_too_soon">>, NoArtifact, NoError)
    ELSE IF artifact.recipe # "" /\ code # 0
    THEN ArtifactOutcome("raise", <<"on_recipe">>, NoArtifact,
             BuildError("There was a problem while building the artifact"))
    ELSE CollectFile(artifact, code, exists)

\* the return code of the process is not looked at
BuildArtifactIgnoringReturncode(artifact, ignore, now, code, exists) ==
    IF TooSoon(artifact, ignore, now)
    THEN ArtifactOutcome("none", <<"on_too_soon">>, NoArtifact, NoError)
    ELSE IF ~artifact.ready
    THEN ArtifactOutcome("none", <<"on_not_ready">>, NoArtifact, NoError)
    ELSE CollectFile(artifact, code, exists)

\* _build_artifact, given what now() returns, the return code of the process
\* run starts for the recipe and what exists tells of the file afterwards
_build_artifact(artifact, ignore, now, code, exists) ==
    IF TooSoon(artifact, ignore, now)
    THEN ArtifactOutcome("none", <<"on_too_soon">>, NoArtifact, NoError)
    ELSE IF ~artifact.ready
    THEN ArtifactOutcome("none", <<"on_not_ready">>, NoArtifact, NoError)
    ELSE IF artifact.recipe # "" /\ code # 0
    THEN ArtifactOutcome("raise", <<"on_recipe">>, NoArtifact,
             BuildError("There was a problem while building the artifact"))
    ELSE CollectFile(artifact, code, exists)

\* the release time of a publication is checked whatever ignore_release_time is
PublicationCheckAlwaysTimed(publication, ignore, now) ==
    IF ~publication.ready THEN <<"on_not_ready">>
    ELSE IF TooSoon(publication, FALSE, now) THEN <<"on_too_soon">>
    ELSE <<>>

\* the checks build makes of a publication before it builds its children:
\* the callback of the check that returns None, <<>> if none does
PublicationCheck(publication, ignore, now) ==
    IF ~publication.ready THEN <<"on_not_ready">>
    ELSE IF TooSoon(publication, ignore, now) THEN <<"on_too_soon">>
    ELSE <<>>

\* the callbacks made for child art of publication pub (art = 0: the
\* publication itself) when the clock read at
Callbacks(events, pub, art, at) ==
    [n \in 1..Len(events) |-> [event |-> events[n], pub |-> pub, art |-> art, at |-> at]]

\* the artifacts of the publications, the outcomes of their recipes and the
\* files present afterwards
FilePoolOfBuild == {"homework.pdf", "solution.pdf"}
RecipeOf(file) == IF file = "homework.pdf" THEN "make homework" ELSE "make solution"
ReleaseAt == Datetime(8, 1)
ReleasePoolOfBuild == {None, ReleaseAt}

HomeworkPool(workdir) ==
    {UnbuiltArtifact(workdir, "homework.pdf", recipe, release_time, ready, missing_ok) :
        recipe \in {"", RecipeOf("homework.pdf")}, release_time \in ReleasePoolOfBuild,
        ready \in BOOLEAN, missing_ok \in BOOLEAN}

Solution(workdir) ==
    UnbuiltArtifact(workdir, "solution.pdf", RecipeOf("solution.pdf"), None, TRUE, FALSE)

Publication(artifacts, ready, release_time) ==
    [artifacts |-> artifacts, ready |-> ready, release_time |-> release_time]

PublicationPool ==
    {Publication(artifacts, ready, release_time) :
        artifacts \in {<<a>> : a \in HomeworkPool("homeworks/02")}
                      \cup {<<a, Solution("homeworks/02")>> : a \in HomeworkPool("homeworks/02")},
        ready \in BOOLEAN, release_time \in ReleasePoolOfBuild}

EarlierPublicationPool ==
    {Publication(<<Solution("homeworks/01")>>, FALSE, None),
     Publication(<<Solution("homeworks/01")>>, TRUE, ReleaseAt)}

RECURSIVE EarlierPublications(_)
EarlierPublications(n) ==
    IF n = 0 THEN {<<>>}
    ELSE EarlierPublications(n - 1)
         \cup {Append(ps, q) : ps \in {e \in EarlierPublications(n - 1) : Len(e) = n - 1},
                               q \in EarlierPublicationPool}

InitBuild ==
    /\ parent \in {Append(ps, p) : ps \in EarlierPublications(MaxBuilt - 1),
                                   p \in PublicationPool}
    /\ ignore_release_time \in BOOLEAN
    /\ run_returncode \in {f \in [{RecipeOf(file) : file \in FilePoolOfBuild} -> {0, 1}] :
                              f[RecipeOf("solution.pdf")] = 0}
    /\ file_exists \in [FilePoolOfBuild -> BOOLEAN]
    /\ clock = 0
    /\ bpc = "publication"
    /\ visit = <<1, 0>>
    /\ run_calls = <<>>
    /\ callbacks = <<>>
    /\ new_children = <<>>
    /\ built = <<>>
    /\ berror = NoError
    /\ copied = <<>>
    /\ published_json = <<>>
    /\ smart_dates = <<>>
    /\ key_order = <<>>
    /\ known = <<>>
    /\ start_of_week_one = None
    /\ Idle
    /\ SerializeIdle
    /\ FilterIdle
    /\ DiscoverIdle

\* time passes between the steps of a build
Tick ==
    /\ bpc \in {"publication", "artifact"}
    /\ clock < MaxClock
    /\ clock' = clock + 1
    /\ UNCHANGED <<parent, ignore_release_time, run_returncode, file_exists, bpc,
                   visit, run_calls, callbacks, new_children, built, berror>>
    /\ UNCHANGED <<smartDateVars, discoverVars, publishVars, serializeVars,
                   filterVars>>

\* build(child) of the next publication of the collection, up to its children
BuildPublication ==
    /\ bpc = "publication"
    /\ visit[1] <= Len(parent)
    /\ \E stop \in {PublicationCheck(parent[visit[1]], ignore_release_time, Now(clock))} :
        /\ callbacks' = callbacks \o Callbacks(<<"on_build">> \o stop, visit[1], 0, clock)
        /\ IF stop # <<>>
           THEN /\ visit' = <<visit[1] + 1, 0>>
                /\ bpc' = "publication"
           ELSE /\ visit' = <<visit[1], 1>>
                /\ bpc' = "artifact"
    /\ new_children' = <<>>
    /\ UNCHANGED <<parent, ignore_release_time, run_returncode, file_exists, clock,
                   run_calls, built, berror>>
    /\ UNCHANGED <<smartDateVars, discoverVars, publishVars, serializeVars,
                   filterVars>>

\* one turn of the loop over the children of a publication
BuildArtifact ==
    /\ bpc = "artifact"
    /\ visit[2] <= Len(parent[visit[1]].artifacts)
    /\ \E artifact \in {parent[visit[1]].artifacts[visit[2]]} :
       \E r \in {_build_artifact(artifact, ignore_release_time, Now(clock),
                                 IF artifact.recipe = "" THEN 0
                                 ELSE run_returncode[artifact.recipe],
                                 file_exists[artifact.file])} :
        /\ callbacks' = callbacks
                        \o Callbacks(<<"on_build">> \o r.events, visit[1], visit[2], clock)
        /\ run_calls' = IF \E n \in DOMAIN r.events : r.events[n] = "on_recipe"
                        THEN Append(run_calls, [pub |-> visit[1], art |-> visit[2],
                                                recipe |-> artifact.recipe,
                                                cwd |-> artifact.workdir, at |-> clock])
                        ELSE run_calls
        /\ IF r.tag = "raise"
           THEN /\ bpc' = "raised"
                /\ berror' = r.error
                /\ UNCHANGED <<visit, new_children>>
           ELSE /\ new_children' = IF r.tag = "built"
                                   THEN Append(new_children,
                                               [key |-> visit[2], value |-> r.value])
                                   ELSE new_children
                /\ visit' = <<visit[1], visit[2] + 1>>
                /\ UNCHANGED <<bpc, berror>>
    /\ UNCHANGED <<parent, ignore_release_time, run_returncode, file_exists, clock, built>>
    /\ UNCHANGED <<smartDateVars, discoverVars, publishVars, serializeVars,
                   filterVars>>

\* a publication left without artifacts is not kept by the collection
FinishPublicationUnlessEmpty ==
    /\ bpc = "artifact"
    /\ visit[2] > Len(parent[visit[1]].artifacts)
    /\ built' = IF new_children = <<>> THEN built
                ELSE Append(built, [key |-> visit[1], artifacts |-> new_children])
    /\ new_children' = <<>>
    /\ visit' = <<visit[1] + 1, 0>>
    /\ bpc' = "publication"
    /\ UNCHANGED <<parent, ignore_release_time, run_returncode, file_exists, clock,
                   run_calls, callbacks, berror>>
    /\ UNCHANGED <<smartDateVars, discoverVars, publishVars, serializeVars,
                   filterVars>>

\* "return parent._replace_children(new_children)" of a publication, kept by
\* the collection under the publication's key
FinishPublication ==
    /\ bpc = "artifact"
    /\ visit[2] > Len(parent[visit[1]].artifacts)
    /\ built' = Append(built, [key |-> visit[1], artifacts |-> new_children])
    /\ new_children' = <<>>
    /\ visit' = <<visit[1] + 1, 0>>
    /\ bpc' = "publication"
    /\ UNCHANGED <<parent, ignore_release_time, run_returncode, file_exists, clock,
                   run_calls, callbacks, berror>>
    /\ UNCHANGED <<smartDateVars, discoverVars, publishVars, serializeVars,
                   filterVars>>

\* "return parent._replace_children(new_children)" of the collection
ReturnBuild ==
    /\ bpc = "publication"
    /\ visit[1] > Len(parent)
    /\ bpc' = "returned"
    /\ UNCHANGED <<parent, ignore_release_time, run_returncode, file_exists, clock,
                   visit, run_calls, callbacks, new_children, built, berror>>
    /\ UNCHANGED <<smartDateVars, discoverVars, publishVars, serializeVars,
                   filterVars>>

\* _publish_artifact: the copy made for a built artifact whose prefix is
\* <publication key>/<artifact key>
Copy(publication_key, child) ==
    [src |-> [workdir |-> child.value.workdir, file |-> child.value.file],
     dst |-> <<publication_key, child.key>>]

\* publish: the copies made for the children of a collection, in order
RECURSIVE Copies(_)
Copies(children) ==
    IF children = <<>> THEN <<>>
    ELSE [m \in DOMAIN Head(children).artifacts
              |-> Copy(Head(children).key, Head(children).artifacts[m])]
         \o Copies(Tail(children))

\* publish: the collection with every leaf replaced by a PublishedArtifact
Published(children) ==
    [n \in DOMAIN children
        |-> [key |-> children[n].key,
             artifacts |-> [m \in DOMAIN children[n].artifacts
                               |-> [key |-> children[n].artifacts[m].key,
                                    path |-> Copy(children[n].key,
                                                  children[n].artifacts[m]).dst]]]]

\* the copies are made whether or not build came to its end
PublishWhateverBuilt ==
    /\ bpc \in {"returned", "raised"}
    /\ copied' = Copies(built)
    /\ bpc' = "copied"
    /\ UNCHANGED <<parent, ignore_release_time, run_returncode, file_exists, clock,
                   visit, run_calls, callbacks, new_children, built, berror,
                   published_json>>
    /\ UNCHANGED <<smartDateVars, discoverVars, serializeVars, filterVars>>

\* cli: "published = publish(built, args.output_directory, ...)", which is
\* reached when build has returned
Publish ==
    /\ bpc = "returned"
    /\ copied' = Copies(built)
    /\ bpc' = "copied"
    /\ UNCHANGED <<parent, ignore_release_time, run_returncode, file_exists, clock,
                   visit, run_calls, callbacks, new_children, built, berror,
                   published_json>>
    /\ UNCHANGED <<smartDateVars, discoverVars, serializeVars, filterVars>>

\* cli: published.json is opened and serialize(published) written to it
WritePublishedJson ==
    /\ bpc = "copied"
    /\ published_json' = <<Published(built)>>
    /\ bpc' = "written"
    /\ UNCHANGED <<parent, ignore_release_time, run_returncode, file_exists, clock,
                   visit, run_calls, callbacks, new_children, built, berror, copied>>
    /\ UNCHANGED <<smartDateVars, discoverVars, serializeVars, filterVars>>

NextBuild ==
    \/ Tick
    \/ BuildPublication
    \/ BuildArtifact
    \/ FinishPublication
    \/ ReturnBuild
    \/ Publish
    \/ WritePublishedJson

SpecBuild == InitBuild /\ [][NextBuild]_vars

(***************************************************************************)
(* Properties of the build.                                                *)
(***************************************************************************)
\* the node a callback or a call of run is about
PublicationOf(c) == parent[c.pub]
ArtifactOf(c) == parent[c.pub].artifacts[c.art]

\* the node's release_time is not strictly later than now() read at "at"
Released(node, at) == node.release_time = None \/ ~Later(node.release_time, Now(at))

RunCalledFor(pub, art) ==
    \E n \in DOMAIN run_calls : run_calls[n].pub = pub /\ run_calls[n].art = art

\* the publication is among the children of the built collection
PublicationInResult(pub) == \E n \in DOMAIN built : built[n].key = pub

\* the artifact is among the children of its built publication, finished or
\* under way
ArtifactInResult(pub, art) ==
    \/ \E n \in DOMAIN built :
           /\ built[n].key = pub
           /\ \E m \in DOMAIN built[n].artifacts : built[n].artifacts[m].key = art
    \/ /\ bpc \in {"artifact", "raised"}
       /\ visit[1] = pub
       /\ \E m \in DOMAIN new_children : new_children[m].key = art

\* C18: run is called for an artifact only if the artifact is ready, its
\* publication is ready and, unless ignore_release_time is set, neither
\* release_time is strictly later than now(); a publication or artifact that
\* is visited while not ready, or (without ignore_release_time) before its
\* release_time, has build result None - it is absent from the result - and
\* run is not called for it; an artifact whose release_time equals now() is
\* released, so its recipe is run.
C18_RunOnlyWhenReleased ==
    /\ \A n \in DOMAIN run_calls :
           /\ ArtifactOf(run_calls[n]).ready
           /\ PublicationOf(run_calls[n]).ready
           /\ \/ ignore_release_time
              \/ /\ Released(ArtifactOf(run_calls[n]), run_calls[n].at)
                 /\ Released(PublicationOf(run_calls[n]), run_calls[n].at)
    /\ \A n \in DOMAIN callbacks :
           /\ callbacks[n].event = "on_build" /\ callbacks[n].art = 0
              /\ ~(/\ PublicationOf(callbacks[n]).ready
                   /\ (ignore_release_time
                       \/ Released(PublicationOf(callbacks[n]), callbacks[n].at)))
              => /\ ~PublicationInResult(callbacks[n].pub)
                 /\ \A art \in DOMAIN PublicationOf(callbacks[n]).artifacts :
                        ~RunCalledFor(callbacks[n].pub, art)
           /\ callbacks[n].event = "on_build" /\ callbacks[n].art > 0
              /\ ~(/\ ArtifactOf(callbacks[n]).ready
                   /\ (ignore_release_time
                       \/ Released(ArtifactOf(callbacks[n]), callbacks[n].at)))
              => /\ ~ArtifactInResult(callbacks[n].pub, callbacks[n].art)
                 /\ ~RunCalledFor(callbacks[n].pub, callbacks[n].art)
           /\ callbacks[n].event = "on_build" /\ callbacks[n].art > 0
              /\ ArtifactOf(callbacks[n]).ready
              /\ ArtifactOf(callbacks[n]).recipe # ""
              /\ ArtifactOf(callbacks[n]).release_time = Now(callbacks[n].at)
              => RunCalledFor(callbacks[n].pub, callbacks[n].art)

\* a build without ignore_release_time that left out a publication visited
\* before its release and, later, ran the recipe of an artifact at the very
\* second of its release
C18_Witness ==
    /\ ~ignore_release_time
    /\ \E n \in DOMAIN callbacks :
           callbacks[n].event = "on_too_soon" /\ callbacks[n].art = 0
    /\ \E n \in DOMAIN run_calls :
           ArtifactOf(run_calls[n]).release_time = Now(run_calls[n].at)

\* every artifact of the collection, as <<publication, artifact>>
Artifacts ==
    {<<pub, art>> \in (DOMAIN parent) \X (1..2) : art \in DOMAIN parent[pub].artifacts}

RaisedAt(pub, art, m) ==
    bpc = "raised" /\ visit = <<pub, art>> /\ berror = BuildError(m)

\* the BuiltArtifact the result holds for the artifact, if any
BuiltValues(pub, art) ==
    {built[n].artifacts[m].value :
        <<n, m>> \in {x \in (DOMAIN built) \X (1..2) :
                         /\ built[x[1]].key = pub
                         /\ x[2] \in DOMAIN built[x[1]].artifacts
                         /\ built[x[1]].artifacts[x[2]].key = art}}
    \cup {new_children[m].value :
            m \in {x \in DOMAIN new_children :
                      /\ bpc \in {"artifact", "raised"}
                      /\ visit[1] = pub
                      /\ new_children[x].key = art}}

MadeCallback(event, pub, art) ==
    \E n \in DOMAIN callbacks :
        callbacks[n].event = event /\ callbacks[n].pub = pub /\ callbacks[n].art = art

\* C20: an artifact that is ready and released when _build_artifact is called
\* for it ends in BuildError if it has a recipe and the process returns a
\* non-zero code; otherwise, if its file does not exist, in None when missing_ok
\* and in BuildError when not; otherwise in a BuiltArtifact with its workdir and
\* file.  run is called exactly when the artifact has a recipe.
C20_ArtifactOutcomes ==
    \A n \in DOMAIN callbacks :
        /\ callbacks[n].event = "on_build" /\ callbacks[n].art > 0
        /\ ArtifactOf(callbacks[n]).ready
        /\ ignore_release_time \/ Released(ArtifactOf(callbacks[n]), callbacks[n].at)
        => /\ RunCalledFor(callbacks[n].pub, callbacks[n].art)
              <=> ArtifactOf(callbacks[n]).recipe # ""
           /\ IF /\ ArtifactOf(callbacks[n]).recipe # ""
                 /\ run_returncode[ArtifactOf(callbacks[n]).recipe] # 0
              THEN /\ RaisedAt(callbacks[n].pub, callbacks[n].art,
                               "There was a problem while building the artifact")
                   /\ BuiltValues(callbacks[n].pub, callbacks[n].art) = {}
              ELSE IF ~file_exists[ArtifactOf(callbacks[n]).file]
              THEN IF ArtifactOf(callbacks[n]).missing_ok
                   THEN /\ ~(bpc = "raised" /\ visit = <<callbacks[n].pub, callbacks[n].art>>)
                        /\ BuiltValues(callbacks[n].pub, callbacks[n].art) = {}
                        /\ MadeCallback("on_missing", callbacks[n].pub, callbacks[n].art)
                   ELSE /\ RaisedAt(callbacks[n].pub, callbacks[n].art,
                                    "Artifact file does not exist.")
                        /\ BuiltValues(callbacks[n].pub, callbacks[n].art) = {}
              ELSE /\ ~(bpc = "raised" /\ visit = <<callbacks[n].pub, callbacks[n].art>>)
                   /\ \E v \in BuiltValues(callbacks[n].pub, callbacks[n].art) :
                          /\ BuiltValues(callbacks[n].pub, callbacks[n].art) = {v}
                          /\ v.workdir = ArtifactOf(callbacks[n]).workdir
                          /\ v.file = ArtifactOf(callbacks[n]).file

\* a returned build that found the file of a ready artifact without recipe
\* missing and went on because of missing_ok, without a call of run, and then
\* built the next artifact of the publication with its recipe
C20_Witness ==
    /\ bpc = "returned"
    /\ \E pub \in DOMAIN parent :
           /\ Len(parent[pub].artifacts) = 2
           /\ parent[pub].artifacts[1].ready
           /\ parent[pub].artifacts[1].recipe = ""
           /\ MadeCallback("on_missing", pub, 1)
           /\ ~RunCalledFor(pub, 1)
           /\ RunCalledFor(pub, 2)
           /\ BuiltValues(pub, 2)
                  = {BuiltArtifact(parent[pub].artifacts[2].workdir, "solution.pdf", 0)}

(***************************************************************************)
(* Properties of the evaluation order and of the phases.                   *)
(***************************************************************************)
\* the position of key k in a sequence of keys, 0 when it is not there
PositionIn(seq, k) ==
    IF \E i \in DOMAIN seq : seq[i] = k
    THEN CHOOSE i \in DOMAIN seq : seq[i] = k ELSE 0

\* C24: when the sort has returned, the order holds every batch key exactly
\* once and the referent of a rule, when it is a batch key, stands before the
\* key of the rule; and when node.resolve is called for a key, the rule of its
\* batch referent has been resolved and its value written to the working
\* mapping.  A referent that is no batch key constrains nothing.
C24_DependenciesFirst ==
    /\ pc \in {"resolving", "returned"}
       => /\ Len(order) = Cardinality(Keys)
          /\ \A k \in Keys : \E i \in DOMAIN order : order[i] = k
          /\ \A k \in Keys : \A r \in EdgeOf(k) :
                 PositionIn(order, r) < PositionIn(order, k)
    /\ \A k \in Keys : Attempted(k) =>
           \A r \in EdgeOf(k) :
               /\ Done(r)
               /\ PositionIn(evaluated, r) < PositionIn(evaluated, k)
               /\ r \in DOMAIN universe
               /\ universe[r] = Resolve(nodes[r], universe, start_of_week_one).value

\* a returned batch of three rules in which "foo", inserted first, refers to
\* "bar", which refers to "baz", which refers to the pre-known "due", so that
\* the order is the reverse of the insertion order
C24_Witness ==
    /\ pc = "returned"
    /\ key_order = <<"foo", "bar", "baz">>
    /\ smart_dates["baz"] = S(<<"due">>)
    /\ EdgeOf("foo") = {"bar"}
    /\ EdgeOf("bar") = {"baz"}
    /\ evaluated = <<"baz", "bar", "foo">>

\* some entry of the batch is rejected by _parse
BadParse == \E k \in Keys : _parse(smart_dates[k]).tag = "raise"

\* C25: a batch with an entry that does not parse raises with nothing sorted
\* and nothing evaluated; a batch whose references form a cycle raises with
\* nothing evaluated, so that no key, on the cycle or not, has a value; and
\* whenever the call raises, in whatever phase, there is no returned mapping,
\* while a call that returns has a value for every key.
C25_NoPartialSuccess ==
    /\ BadParse
       => /\ pc \in {"start", "raised"}
          /\ nodes = <<>> /\ order = <<>> /\ evaluated = <<>> /\ resolved = <<>>
    /\ HasCycle
       => /\ pc \in {"parsed", "raised"}
          /\ order = <<>> /\ evaluated = <<>> /\ resolved = <<>>
          /\ universe = known
    /\ pc = "raised"
       => /\ resolved = <<>>
          /\ raised # NoError
          /\ resolve_smart_dates(key_order, smart_dates, known, start_of_week_one)
                 = Outcome(<<>>, raised)
    /\ pc = "returned" => DOMAIN resolved = Keys /\ raised = NoError

\* the call raised in the evaluation of the second rule, after the first had
\* been resolved and written, and returned nothing
C25_Witness ==
    /\ pc = "raised"
    /\ Len(evaluated) = 2
    /\ \E k \in Keys : Done(k) /\ (k \notin DOMAIN known) /\ (k \in DOMAIN universe)
    /\ resolved = <<>>

\* C26: node.resolve of a first-available rule or of a week rule, whatever
\* set of weekdays the parser made of its list, ends within the scan of a
\* week: it never runs on until the date leaves the calendar.
C26_ScanBounded ==
    \A k \in Keys :
        (Attempted(k) /\ KindOf(k) \in {"first", "week"})
        => ~(FailedAt(k) /\ raised = OverflowError)

\* C29: whatever the metadata of a publication file, a failure of the
\* resolution of its smart dates leaves read_publication_file as a
\* DiscoveryError: no exception of another type leaves discover.
C29_OnlyDiscoveryError ==
    dpc = "raised" => derror.exc = "DiscoveryError"

\* known without the names that are keys of the batch
KnownOutsideBatch == [k \in (DOMAIN known) \ Keys |-> known[k]]

\* C30: a pre-known value of a name that is also a key of the batch has no
\* part in the outcome: the call ends as it would without that value, the
\* value returned for the key is the one resolved from its rule, and a rule
\* that refers to the key is resolved from that value.
C30_BatchOverKnown ==
    /\ pc \in {"returned", "raised"}
       => resolve_smart_dates(key_order, smart_dates, KnownOutsideBatch,
                              start_of_week_one) = Outcome(resolved, raised)
    /\ pc = "returned"
       => \A k \in Keys :
              /\ resolved[k] = Resolve(nodes[k], universe, start_of_week_one).value
              /\ \A r \in EdgeOf(k) :
                     resolved[k] = Resolve(nodes[k], (r :> resolved[r]) @@ known,
                                           start_of_week_one).value

\* "bar", inserted first, refers to "foo"; "foo" is pre-known and is also a
\* key of the batch whose rule gives another value; both were returned
C30_Witness ==
    /\ pc = "returned"
    /\ key_order = <<"bar", "foo">>
    /\ EdgeOf("bar") = {"foo"}
    /\ "foo" \in DOMAIN known
    /\ resolved["foo"] # known["foo"]

(***************************************************************************)
(* Properties of the order of discovery.                                   *)
(***************************************************************************)
\* the files read so far that are of the collection of the file being read
ReadOfCollection ==
    {j \in 1..Len(publications) :
        files[j].path.collection = NextFile.path.collection}

\* C27: the files are read in sorted path order, one publication per file,
\* each with its metadata resolved in the context made from those read before
\* it; while a file of an ordered collection is read, every "previous." key
\* of its context holds a resolved metadata value of the publication of the
\* same collection read last before it, and the pre-known values are
\* untouched; the first file of a collection, a file of a collection that is
\* not ordered, and a file that follows only files of another collection have
\* the context date_context.known.
C27_PreviousInOrder ==
    /\ dpc # "found"
       => \A i \in 1..(Len(files) - 1) : PathBefore(files[i].path, files[i + 1].path)
    /\ \A j \in 1..Len(publications) :
           /\ publications[j].collection = files[j].path.collection
           /\ DReturned(publications[j].metadata)
                  = _resolve_smart_dates_in_metadata(
                        files[j].metadata,
                        SchemaOf(files[j].path.collection).metadata_schema,
                        ContextOf(j), start_of_week_one)
    /\ dpc \in {"metadata", "artifacts", "validate", "raised"}
       => IF Ordered /\ ReadOfCollection # {}
          THEN \E j \in ReadOfCollection :
                  /\ \A i \in ReadOfCollection : i <= j
                  /\ \A t \in DOMAIN known : cur.context[t] = known[t]
                  /\ \A t \in (DOMAIN cur.context) \ (DOMAIN known) :
                         \E k \in DOMAIN publications[j].metadata :
                             /\ t = PreviousKey[k]
                             /\ cur.context[t] = publications[j].metadata[k]
                  /\ \A k \in DOMAIN publications[j].metadata :
                         IsDateOrDatetime(publications[j].metadata[k])
                         => PreviousKey[k] \in DOMAIN cur.context
          ELSE cur.context = known

\* three publications of the ordered collection "homeworks" were read, found
\* in another order than that of their paths; the second and the third are
\* due a week after the one before, so that the third is due two weeks after
\* the first
C27_Witness ==
    /\ dpc = "returned"
    /\ schema.is_ordered
    /\ Len(publications) = 3
    /\ \A j \in 1..3 : publications[j].collection = "homeworks"
    /\ files[1].metadata["due"] = S(<<"7", "days", "after", "released">>)
    /\ files[2].metadata["due"] = SevenDaysAfterPrevious
    /\ files[3].metadata["due"] = SevenDaysAfterPrevious
    /\ publications[3].metadata["due"] = Datetime(22, 0)

\* the keys of a sequence of children, in order
KeysIn(children) == [n \in DOMAIN children |-> children[n].key]

Increasing(seq) == \A n \in 1..(Len(seq) - 1) : seq[n] < seq[n + 1]

\* build returned None for the node: one of the callbacks that precede
\* "return None" was made for it
ResultNone(pub, art) ==
    \/ MadeCallback("on_not_ready", pub, art)
    \/ MadeCallback("on_too_soon", pub, art)
    \/ MadeCallback("on_missing", pub, art)

C21_HaltBeforePublish ==
    /\ [](berror # NoError
          => bpc = "raised" /\ berror.exc = "BuildError"
             /\ copied = <<>> /\ published_json = <<>>)
    /\ [][bpc = "raised" => UNCHANGED <<bpc, copied, published_json>>]_vars
    /\ [](copied # <<>> \/ published_json # <<>>
          => bpc \in {"copied", "written"} /\ berror = NoError)

\* the second publication's build raised after the first publication was
\* built with an artifact in it, and nothing was copied
C21_Witness ==
    /\ bpc = "raised"
    /\ visit[1] = 2
    /\ Len(built) = 1
    /\ built[1].artifacts # <<>>
    /\ Copies(built) # <<>>
    /\ copied = <<>>
    /\ published_json = <<>>

(***************************************************************************)
(* serialize and deserialize (_serialize.py, types.py).  A named tuple is  *)
(* an instance: its class and the dictionary of its fields.  A JSON        *)
(* document is the dictionary json.dumps encodes, each value being what    *)
(* the encoder made of it.                                                 *)
(***************************************************************************)
AttributeError == [exc |-> "AttributeError", msg |-> "object has no attribute '_deep_asdict'"]

\* a str, a pathlib.Path and a bool
PyStr(text) == [type |-> "str", day |-> 0, sec |-> 0, text |-> text]

PyPath(text) == [type |-> "Path", day |-> 0, sec |-> 0, text |-> text]

Bool(b) == [type |-> "bool", day |-> 0, sec |-> IF b THEN 1 ELSE 0]

Instance(class, fields) == [class |-> class, fields |-> fields]

\* str(o) of a date and of a datetime; day 8 is 2020-12-15
isoformat ==
    (Date(8) :> "2020-12-15")
    @@ (Datetime(8, 0) :> "2020-12-15 00:00:00")
    @@ (Datetime(8, 86340) :> "2020-12-15 23:59:00")

\* json.dumps(..., default=converter) of the values of one dictionary: what
\* the encoder does not know (a date, a datetime, a Path) becomes str(o)
dumps(dct) ==
    [k \in DOMAIN dct |->
        IF dct[k].type \in {"date", "datetime"} THEN PyStr(isoformat[dct[k]])
        ELSE IF dct[k].type = "Path" THEN PyStr(dct[k].text)
        ELSE dct[k]]

\* the dates, and failing them the datetimes, the string is the isoformat
\* of; none stands for ValueError("Not a time.")
_convert_to_time(s) ==
    IF \E d \in DOMAIN isoformat : d.type = "date" /\ isoformat[d] = s
    THEN {d \in DOMAIN isoformat : d.type = "date" /\ isoformat[d] = s}
    ELSE {d \in DOMAIN isoformat : d.type = "datetime" /\ isoformat[d] = s}

\* hook: the pairs of one JSON object, every str value that reads as a time
\* converted
hook(pairs) ==
    [k \in DOMAIN pairs |->
        IF pairs[k].type = "str" /\ _convert_to_time(pairs[k].text) # {}
        THEN CHOOSE d \in _convert_to_time(pairs[k].text) : TRUE
        ELSE pairs[k]]

Publication_deep_asdict(self) ==
    [metadata |-> self.fields.metadata,
     artifacts |-> [k \in DOMAIN self.fields.artifacts
                       |-> self.fields.artifacts[k].fields]]

Collection_deep_asdict(self) ==
    [schema |-> self.fields.schema.fields,
     publications |-> [k \in DOMAIN self.fields.publications
                          |-> Publication_deep_asdict(self.fields.publications[k])]]

Universe_deep_asdict(self) ==
    [collections |-> [k \in DOMAIN self.fields.collections
                         |-> Collection_deep_asdict(self.fields.collections[k])]]

\* json.dumps of the dictionary of a publication, of a collection (whose
\* schema holds lists, booleans and None only) and of a universe
DumpsPublication(dct) ==
    [metadata |-> dumps(dct.metadata),
     artifacts |-> [k \in DOMAIN dct.artifacts |-> dumps(dct.artifacts[k])]]

DumpsCollection(dct) ==
    [schema |-> dct.schema,
     publications |-> [k \in DOMAIN dct.publications
                          |-> DumpsPublication(dct.publications[k])]]

DumpsUniverse(dct) ==
    [collections |-> [k \in DOMAIN dct.collections
                         |-> DumpsCollection(dct.collections[k])]]

\* serialize, when it returns
serialize(n) ==
    IF n.class = "Universe" THEN DumpsUniverse(Universe_deep_asdict(n))
    ELSE IF n.class = "Collection" THEN DumpsCollection(Collection_deep_asdict(n))
    ELSE IF n.class = "Publication" THEN DumpsPublication(Publication_deep_asdict(n))
    ELSE dumps(n.fields)

\* json.loads(s, object_pairs_hook=hook) of the document of a publication,
\* of a collection and of a universe
LoadsPublication(s) ==
    [metadata |-> hook(s.metadata),
     artifacts |-> [k \in DOMAIN s.artifacts |-> hook(s.artifacts[k])]]

LoadsCollection(s) ==
    [schema |-> s.schema,
     publications |-> [k \in DOMAIN s.publications
                          |-> LoadsPublication(s.publications[k])]]

LoadsUniverse(s) ==
    [collections |-> [k \in DOMAIN s.collections
                         |-> LoadsCollection(s.collections[k])]]

_artifact_from_dict(dct) ==
    Instance(IF "recipe" \in DOMAIN dct THEN "UnbuiltArtifact"
             ELSE IF "returncode" \in DOMAIN dct THEN "BuiltArtifact"
             ELSE "PublishedArtifact",
             dct)

\* the fields a publication is not given get their defaults
Publication_deep_fromdict(dct) ==
    Instance("Publication",
             [metadata |-> dct.metadata,
              artifacts |-> [k \in DOMAIN dct.artifacts
                                |-> _artifact_from_dict(dct.artifacts[k])],
              ready |-> Bool(TRUE),
              release_time |-> None])

Collection_deep_fromdict(dct) ==
    Instance("Collection",
             [schema |-> Instance("Schema", dct.schema),
              publications |-> [k \in DOMAIN dct.publications
                                   |-> Publication_deep_fromdict(dct.publications[k])]])

Universe_deep_fromdict(dct) ==
    Instance("Universe",
             [collections |-> [k \in DOMAIN dct.collections
                                  |-> Collection_deep_fromdict(dct.collections[k])]])

deserialize(s) ==
    IF "collections" \in DOMAIN s THEN Universe_deep_fromdict(LoadsUniverse(s))
    ELSE IF "publications" \in DOMAIN s THEN Collection_deep_fromdict(LoadsCollection(s))
    ELSE IF "artifacts" \in DOMAIN s THEN Publication_deep_fromdict(LoadsPublication(s))
    ELSE _artifact_from_dict(hook(s))

\* the nodes handed to serialize
ArtifactPoolOfSerialize ==
    {Instance("PublishedArtifact", [path |-> PyStr("foo/bar")])}
    \cup {Instance("BuiltArtifact",
                   [workdir |-> w, file |-> PyStr("foo/bar"), returncode |-> None,
                    stdout |-> None, stderr |-> None]) :
             w \in {None, PyPath("/homeworks/01-intro")}}
    \cup {Instance("UnbuiltArtifact",
                   [workdir |-> None, file |-> PyStr("homework.pdf"),
                    recipe |-> PyStr("make"), release_time |-> r, ready |-> Bool(b),
                    missing_ok |-> Bool(FALSE)]) :
             r \in {None, Datetime(8, 86340)}, b \in BOOLEAN}

MetadataPoolOfSerialize ==
    {[name |-> n, due |-> d] :
        n \in {PyStr("testing"), PyStr("2020-12-15")},
        d \in {Date(8), Datetime(8, 0), Datetime(8, 86340)}}

PublicationPoolOfSerialize ==
    {Instance("Publication",
              [metadata |-> m, artifacts |-> a, ready |-> Bool(b), release_time |-> r]) :
        m \in MetadataPoolOfSerialize,
        a \in {<<>>} \cup {[k \in {"homework"} |-> x] : x \in ArtifactPoolOfSerialize},
        b \in BOOLEAN,
        r \in {None, Datetime(8, 86340)}}

SchemaOfSerialize ==
    Instance("Schema",
             [required_artifacts |-> <<"foo", "bar">>, optional_artifacts |-> None,
              metadata_schema |-> None, allow_unspecified_artifacts |-> Bool(FALSE),
              is_ordered |-> Bool(FALSE)])

CollectionPoolOfSerialize ==
    {Instance("Collection", [schema |-> SchemaOfSerialize, publications |-> p]) :
        p \in {<<>>} \cup {[k \in {"01-intro"} |-> x] : x \in PublicationPoolOfSerialize}}

UniversePoolOfSerialize ==
    {Instance("Universe", [collections |-> c]) :
        c \in {<<>>} \cup {[k \in {"homeworks"} |-> x] : x \in CollectionPoolOfSerialize}}

InitSerialize ==
    /\ original \in ArtifactPoolOfSerialize \cup PublicationPoolOfSerialize
                    \cup CollectionPoolOfSerialize \cup UniversePoolOfSerialize
    /\ artifact_is_instance \in BOOLEAN
    /\ serialized = <<>>
    /\ deserialized = <<>>
    /\ spc = "start"
    /\ serror = NoError
    /\ smart_dates = <<>>
    /\ key_order = <<>>
    /\ known = <<>>
    /\ start_of_week_one = None
    /\ Idle
    /\ DiscoverIdle
    /\ BuildIdle
    /\ FilterIdle

\* s = publish.serialize(original): an artifact is told from the other nodes
\* by isinstance(node, Artifact), and a node that is not told to be one is
\* asked for _deep_asdict, which an artifact has not
Serialize ==
    /\ spc = "start"
    /\ IF original.class \in {"Universe", "Collection", "Publication"}
          \/ artifact_is_instance
       THEN /\ serialized' = serialize(original)
            /\ spc' = "serialized"
            /\ UNCHANGED serror
       ELSE /\ serror' = AttributeError
            /\ spc' = "raised"
            /\ UNCHANGED serialized
    /\ UNCHANGED <<original, artifact_is_instance, deserialized>>
    /\ UNCHANGED <<smartDateVars, discoverVars, buildVars, publishVars, filterVars>>

\* result = publish.deserialize(s)
Deserialize ==
    /\ spc = "serialized"
    /\ deserialized' = deserialize(serialized)
    /\ spc' = "deserialized"
    /\ UNCHANGED <<original, artifact_is_instance, serialized, serror>>
    /\ UNCHANGED <<smartDateVars, discoverVars, buildVars, publishVars, filterVars>>

NextSerialize ==
    \/ Serialize
    \/ Deserialize

SpecSerialize == InitSerialize /\ [][NextSerialize]_vars

\* C22: deserialize(serialize(x)) is x, for every universe, collection,
\* publication and artifact x.
C22_RoundTrip ==
    spc \in {"deserialized", "raised"}
    => spc = "deserialized" /\ deserialized = original

(***************************************************************************)
(* filter_nodes (_filter.py).  A node is its class and the dictionary of   *)
(* its children; an artifact has none.                                     *)
(***************************************************************************)
Node(class, children) == [class |-> class, children |-> children]

\* isinstance(node, (UnbuiltArtifact, BuiltArtifact, PublishedArtifact))
IsArtifact(n) == n.class \in {"UnbuiltArtifact", "BuiltArtifact", "PublishedArtifact"}

\* the predicates handed to filter_nodes: those of the tests, which accept
\* every node that is no UnbuiltArtifact, and ones that look at the children
\* or at the key of a collection or publication
Predicates ==
    {"keep_solution", "keep_no_artifact", "keep_solution_of_nonempty",
     "keep_all_but_02", "keep_nothing"}

Apply(keep, k, v) ==
    IF keep = "keep_solution"
    THEN v.class # "UnbuiltArtifact" \/ k = "solution.pdf"
    ELSE IF keep = "keep_no_artifact"
    THEN v.class # "UnbuiltArtifact"
    ELSE IF keep = "keep_solution_of_nonempty"
    THEN IF v.class = "UnbuiltArtifact" THEN k = "solution.pdf"
         ELSE DOMAIN v.children # {}
    ELSE IF keep = "keep_all_but_02"
    THEN k # "02-more"
    ELSE FALSE

\* the predicate is asked about the children as they were handed in
RECURSIVE filter_nodes_asking_first(_, _, _)
filter_nodes_asking_first(p, keep, remove_empty) ==
    IF IsArtifact(p) THEN p
    ELSE [p EXCEPT !.children =
             [k \in {j \in DOMAIN p.children :
                        /\ \/ IsArtifact(p.children[j])
                           \/ ~remove_empty
                           \/ DOMAIN filter_nodes_asking_first(
                                         p.children[j], keep, remove_empty).children # {}
                        /\ Apply(keep, j, p.children[j])}
                 |-> filter_nodes_asking_first(p.children[k], keep, remove_empty)]]

\* the children left by the loop of filter_nodes: the filtered child, unless
\* it is no artifact, is empty and empty nodes are removed
NewChildren(new_child, remove_empty) ==
    [k \in {j \in DOMAIN new_child :
               \/ IsArtifact(new_child[j])
               \/ ~remove_empty
               \/ DOMAIN new_child[j].children # {}}
        |-> new_child[k]]

\* {k: v for (k, v) in new_children.items() if predicate(k, v)}
Accepted(children, keep) ==
    [k \in {j \in DOMAIN children : Apply(keep, j, children[j])}
        |-> children[k]]

RECURSIVE filter_nodes(_, _, _)
filter_nodes(p, keep, remove_empty) ==
    IF IsArtifact(p) THEN p
    ELSE [p EXCEPT !.children =
             Accepted(NewChildren([k \in DOMAIN p.children
                                      |-> filter_nodes(p.children[k], keep, remove_empty)],
                                  remove_empty),
                      keep)]

\* the trees handed to filter_nodes
ArtifactsPoolOfFilter ==
    {[k \in ks |-> Node("UnbuiltArtifact", <<>>)] :
        ks \in SUBSET {"homework.pdf", "solution.pdf"}}

PublicationsPoolOfFilter ==
    {[k \in ks |-> Node("Publication", a[k])] :
        ks \in SUBSET {"01-intro", "02-more"}, a \in [{"01-intro", "02-more"} -> ArtifactsPoolOfFilter]}

TreePool ==
    {Node("UnbuiltArtifact", <<>>)}
    \cup {Node("Publication", a) : a \in ArtifactsPoolOfFilter}
    \cup {Node("Collection", ps) : ps \in PublicationsPoolOfFilter}
    \cup {Node("Universe", [k \in {"homeworks"} |-> Node("Collection", ps)]) :
             ps \in PublicationsPoolOfFilter}
    \cup {Node("Universe", <<>>)}

InitFilter ==
    /\ tree \in TreePool
    /\ predicate \in Predicates
    /\ remove_empty_nodes \in BOOLEAN
    /\ filtered = <<>>
    /\ fpc = "start"
    /\ smart_dates = <<>>
    /\ key_order = <<>>
    /\ known = <<>>
    /\ start_of_week_one = None
    /\ Idle
    /\ DiscoverIdle
    /\ BuildIdle
    /\ SerializeIdle

\* universe = publish.filter_nodes(universe, keep, remove_empty_nodes=...)
FilterNodes ==
    /\ fpc = "start"
    /\ filtered' = filter_nodes(tree, predicate, remove_empty_nodes)
    /\ fpc' = "done"
    /\ UNCHANGED <<tree, predicate, remove_empty_nodes>>
    /\ UNCHANGED <<smartDateVars, discoverVars, buildVars, publishVars, serializeVars>>

NextFilter == FilterNodes

SpecFilter == InitFilter /\ [][NextFilter]_vars

\* every child, at every level, is accepted by the predicate as it stands
\* in the tree
RECURSIVE ChildrenAccepted(_)
ChildrenAccepted(n) ==
    \A k \in DOMAIN n.children :
        Apply(predicate, k, n.children[k]) /\ ChildrenAccepted(n.children[k])

\* no collection or publication below the node is without children
RECURSIVE NoEmptyBelow(_)
NoEmptyBelow(n) ==
    \A k \in DOMAIN n.children :
        \/ IsArtifact(n.children[k])
        \/ DOMAIN n.children[k].children # {} /\ NoEmptyBelow(n.children[k])

\* the result is the input with children left out
RECURSIVE Within(_, _)
Within(result, input) ==
    /\ result.class = input.class
    /\ DOMAIN result.children \subseteq DOMAIN input.children
    /\ \A k \in DOMAIN result.children : Within(result.children[k], input.children[k])

\* every collection and publication of the input is in the result
RECURSIVE InnerNodesKept(_, _)
InnerNodesKept(result, input) ==
    \A k \in DOMAIN input.children :
        \/ IsArtifact(input.children[k])
        \/ /\ k \in DOMAIN result.children
           /\ InnerNodesKept(result.children[k], input.children[k])

====
